---- MODULE Spec2Model ----
(***************************************************************************)
(* Model of fsqlctl's interactive shell (src/src/repl.rs, handle_repl):    *)
(* the multi-line input accumulator, the staging rules, the command        *)
(* router of the shell and the hand-over to api::dispatch_command.         *)
(*                                                                         *)
(* Strings are sequences of one-character strings, so that trim,           *)
(* to_lowercase, contains, ends_with and starts_with are computed the way  *)
(* the Rust standard library computes them.                                *)
(***************************************************************************)
EXTENDS Integers, Sequences, FiniteSets, TLC

\* Largest number of lines the model lets one buffer hold.
MaxLines == 3

\* Longest line of the exhaustive part of the input alphabet.
MaxShort == 1

-----------------------------------------------------------------------------
(* Characters and string helpers *)

\* The white-space characters of the model (char::is_whitespace).
WS == {" ", "\t", "\n"}

UpperCase == <<"A","B","C","D","E","F","G","H","I","J","K","L","M",
               "N","O","P","Q","R","S","T","U","V","W","X","Y","Z">>

LowerCase == <<"a","b","c","d","e","f","g","h","i","j","k","l","m",
               "n","o","p","q","r","s","t","u","v","w","x","y","z">>

\* char::to_lowercase on the ASCII range.
lower_char(c) ==
    IF \E i \in 1..26 : UpperCase[i] = c
    THEN LowerCase[CHOOSE i \in 1..26 : UpperCase[i] = c]
    ELSE c

\* str::to_lowercase
to_lowercase(s) == [i \in 1..Len(s) |-> lower_char(s[i])]

SetMin(S) == CHOOSE x \in S : \A y \in S : x <= y

SetMax(S) == CHOOSE x \in S : \A y \in S : x >= y

\* str::trim: drops leading and trailing white space, keeps the interior.
trim(s) ==
    LET keep == {i \in 1..Len(s) : s[i] \notin WS}
    IN  IF keep = {} THEN <<>> ELSE SubSeq(s, SetMin(keep), SetMax(keep))

\* str::is_empty
is_empty(s) == Len(s) = 0

\* str::contains(char)
contains(s, c) == \E i \in 1..Len(s) : s[i] = c

\* str::ends_with(char)
ends_with(s, c) == Len(s) > 0 /\ s[Len(s)] = c

\* str::starts_with(&str)
starts_with(s, p) == Len(s) >= Len(p) /\ SubSeq(s, 1, Len(p)) = p

-----------------------------------------------------------------------------
(* Literals of the source *)

RESET == <<"\\","r","e","s","e","t">>

HELP == <<"h","e","l","p">>

H == <<"h">>

CLEAR == <<"c","l","e","a","r">>

EXIT == <<"e","x","i","t">>

VALIDATE_ == <<"v","a","l","i","d","a","t","e"," ">>

EXPLAIN_ == <<"e","x","p","l","a","i","n"," ">>

EXPLAIN_SCHEMA_ == EXPLAIN_ \o <<"s","c","h","e","m","a"," ">>

EXPLAIN_GRAPHQL_ == EXPLAIN_ \o <<"g","r","a","p","h","q","l"," ">>

EXPLAIN_VERSION == EXPLAIN_ \o <<"v","e","r","s","i","o","n">>

EXPLAIN_CONNECTORS == EXPLAIN_ \o <<"c","o","n","n","e","c","t","o","r","s">>

EXPLAIN_ATTRIBUTES_ == EXPLAIN_ \o <<"a","t","t","r","i","b","u","t","e","s"," ">>

QUERY_ == <<"q","u","e","r","y"," ">>

-----------------------------------------------------------------------------
(* The lines the user can type *)

RECURSIVE SeqsUpTo(_, _)
SeqsUpTo(A, n) ==
    IF n = 0 THEN {<<>>}
    ELSE LET shorter == SeqsUpTo(A, n - 1)
         IN  shorter \cup {Append(s, c) : s \in shorter, c \in A}

\* Every line of at most MaxShort characters over a letter, a space and ';'.
ShortLines == SeqsUpTo({"a", " ", ";"}, MaxShort)

Hello == <<"h","e","l","l","o">>

NamedLines ==
    { Hello, HELP, EXIT, CLEAR,
      <<"\t">>,
      <<"a"," ","b">>,
      <<"a","\t","b">>,
      <<"a"," ","b",";">>,
      <<"a"," ","b",";","\t">>,
      <<" ","Q","u","e","r","y"," ","X"," ">>,
      RESET,
      <<" ","\\","R","e","s","e","t","\t">> }

InputLines == ShortLines \cup NamedLines

-----------------------------------------------------------------------------
(* State *)

VARIABLES
    pc,                       \* "readline": blocked in rl_editor.readline;
                              \* "dispatch": blocked in request.send();
                              \* "exit": the process has ended
    input,                    \* the buffer of the command under construction
    line_count,               \* lines appended to input
    consecutive_empty_lines,  \* blank lines in a row at the end of input
    trimmed_input,            \* input.trim() of the command staged by the last step
    kind,                     \* branch of the router taken for that command
    sent,                     \* the "q" payloads sent for that command
    report,                   \* what the last step printed
    exit_code,                \* process exit code, -1 while running
    event,                    \* what readline or the server delivered last
    since,                    \* raw lines received since the last reset,
                              \* interrupt or staging
    staged,                   \* the last line read broke the inner loop
    discarded,                \* the buffer the last step threw away unstaged
    outcome,                  \* what dispatch_command returned for the command
                              \* and the raw text its handler fell back to
    token,                    \* the credential given to dispatch_command
    verbose,                  \* args.verbose
    headers,                  \* the header map add_headers gave the request
    out,                      \* the lines a handler printed on stdout
    diag,                     \* the lines printed on stderr
    api_keys,                 \* Config.api_keys, host -> token
    got,                      \* what the last Config::get_token returned
    calls,                    \* the set_token calls made so far, in order
    args,                     \* Args as parsed, and whether stdin is a terminal
    stored,                   \* the file config.toml
    mode,                     \* the branch of main that runs
    api_url                   \* the URL the mode dispatches to

\* The variables of one call of a handler, followed by HandlerSpec and
\* TokenSpec only, and of the configuration, followed by ConfigSpec only.
call_vars == <<token, verbose, headers, out, diag>>

config_vars == <<api_keys, got, calls>>

main_vars == <<args, stored, mode, api_url>>

vars == <<pc, input, line_count, consecutive_empty_lines, trimmed_input,
          kind, sent, report, exit_code, event, since, staged, discarded,
          outcome, token, verbose, headers, out, diag, api_keys, got, calls,
          args, stored, mode, api_url>>

\* Router branches that call api::dispatch_command.
ServerKinds == {"Validate", "ExplainSchema", "ExplainGraphql", "ExplainVersion",
                "ExplainConnectors", "ExplainAttributes", "Explain", "Query"}

\* HTTP statuses the server answers with.
Statuses == {200, 204, 401}

\* Response bodies, as the raw text the server sends.
BODY_VALID == "{\"command\":\"v\",\"is_valid\":true}"

BODY_NOT_VALID == "{\"command\":\"v\",\"is_valid\":false}"

BODY_NO_IS_VALID == "{\"command\":\"v\"}"

BODY_QUERY == "{\"command\":\"q\",\"search_id\":\"s\",\"trace_id\":\"t\",\"results\":[]}"

\* Query responses with one and with two results.
BODY_QUERY_1 == "{\"command\":\"q\",\"search_id\":\"s\",\"trace_id\":\"t\",\"results\":[{}]}"

BODY_QUERY_2 == "{\"command\":\"q\",\"search_id\":\"s\",\"trace_id\":\"t\",\"results\":[{},{}]}"

BODY_ERROR == "{\"error\":\"unauthorized\"}"

BODY_TEXT == "Bad Gateway"

Bodies == {BODY_VALID, BODY_NOT_VALID, BODY_NO_IS_VALID, BODY_QUERY, BODY_ERROR, BODY_TEXT}

\* No response: the event is not a response of the server.
NoResponse == [send |-> "none", status |-> 0, readable |-> FALSE, body |-> ""]

\* What request.send() and response.text() can deliver.
Responses ==
    {[send |-> "error", status |-> 0, readable |-> FALSE, body |-> ""]}
    \cup [send : {"ok"}, status : Statuses, readable : {FALSE}, body : {""}]
    \cup [send : {"ok"}, status : Statuses, readable : {TRUE}, body : Bodies]

-----------------------------------------------------------------------------
(* api.rs: the response types and dispatch_command after request.send() *)

\* serde_json: whether the text is a JSON document.
IsJson(text) == text # BODY_TEXT

\* serde_json: the members of the JSON object in the text.
JsonFields(text) ==
    CASE text = BODY_VALID -> {"command", "is_valid"}
      [] text = BODY_NOT_VALID -> {"command", "is_valid"}
      [] text = BODY_NO_IS_VALID -> {"command"}
      [] text \in {BODY_QUERY, BODY_QUERY_1, BODY_QUERY_2}
              -> {"command", "search_id", "trace_id", "results"}
      [] text = BODY_ERROR -> {"error"}
      [] OTHER -> {}

\* data.results.len() of a decoded QueryResponse.
ResultCount(text) ==
    CASE text = BODY_QUERY_1 -> 1
      [] text = BODY_QUERY_2 -> 2
      [] OTHER -> 0

\* ValidateResponse.is_valid of a decoded body.
IsValid(text) == text = BODY_VALID

\* The fields each response type requires (a struct derived Deserialize
\* rejects a missing field and ignores an unknown one).
Schema(k) ==
    CASE k = "ExplainConnectors" -> {"command", "connectors"}
      [] k = "ExplainVersion" -> {"command", "fsql", "qdm"}
      [] k = "ExplainAttributes" -> {"command", "attributes"}
      [] k = "Explain" -> {"command", "input", "expanded_query"}
      [] k = "Validate" -> {"command", "is_valid"}
      [] k = "Query" -> {"command", "search_id", "trace_id", "results"}
      [] k = "ExplainSchema" -> {"command", "schema"}
      [] k = "ExplainGraphql" -> {"command", "query"}
      [] OTHER -> {}

\* serde_json::from_str::<api::...Response>(&response_text) of the handler of
\* kind k. api::SummarizeResponse is not defined in api.rs: whether a JSON
\* body decodes as one is left open (unknown_ok).
decodes(k, text, unknown_ok) ==
    /\ IsJson(text)
    /\ IF k = "Summarize" THEN unknown_ok ELSE Schema(k) \subseteq JsonFields(text)

\* No text.
NoText == "<none>"

\* No dispatch has returned.
NoOutcome == [cause |-> "none", status |-> 0, body |-> NoText, raw |-> NoText]

\* format!("Server returned error {} (could not read response body)", status)
PLACEHOLDER == "(could not read response body)"

\* let response_text = response.text().unwrap();  panics on a 2xx response
\* whose body cannot be read.
dispatch_panics(resp) ==
    resp.send = "ok" /\ resp.status \in 200..299 /\ ~resp.readable

\* The value dispatch_command returns for a response (lines 165-271).
dispatch_result(resp) ==
    IF resp.send = "error"
    THEN [cause |-> "send", status |-> 0, body |-> NoText, raw |-> NoText]
    ELSE IF resp.status \notin 200..299
    THEN IF resp.readable
         THEN [cause |-> "http", status |-> resp.status, body |-> resp.body, raw |-> NoText]
         ELSE [cause |-> "http", status |-> resp.status, body |-> PLACEHOLDER, raw |-> NoText]
    ELSE [cause |-> "ok", status |-> 0, body |-> resp.body, raw |-> NoText]

\* The Err of ClientBuilder::build()? (line 155), returned before any send.
build_error == [cause |-> "build", status |-> 0, body |-> NoText, raw |-> NoText]

-----------------------------------------------------------------------------
(* The accumulator, handle_repl lines 339-418 *)

\* LoopTop forgetting the blank-line counter.
LoopTop_keep_counter ==
    /\ input' = <<>>
    /\ line_count' = 0
    /\ consecutive_empty_lines' = consecutive_empty_lines

\* let mut input = String::new(); let mut line_count = 0;
\* let mut consecutive_empty_lines = 0;   (top of the outer loop)
LoopTop ==
    /\ input' = <<>>
    /\ line_count' = 0
    /\ consecutive_empty_lines' = 0

\* is_reset that needs two buffered lines.
is_reset_late(lc, lower_line) == lc > 1 /\ lower_line = RESET

\* is_reset whatever the line count.
is_reset_any(lc, lower_line) == lower_line = RESET

\* if line_count > 0 { if lower_line == "\\reset" {
is_reset(lc, lower_line) == lc > 0 /\ lower_line = RESET

\* input.push_str(&line); input.push('\n');
push_line(buf, line) == buf \o line \o <<"\n">>

\* if trimmed_line.is_empty() { += 1 } else { = 0 }
count_empty(cel, trimmed_line) == IF is_empty(trimmed_line) THEN cel + 1 ELSE 0

\* should_break without the one-word rule for the first line.
should_break_no_word(lc, cel, trimmed_line) ==
    \/ cel >= 1
    \/ ends_with(trimmed_line, ";")
    \/ lc = 1 /\ is_empty(trimmed_line)

\* should_break waiting for a second blank line.
should_break_two_blank(lc, cel, trimmed_line) ==
    \/ cel >= 2
    \/ lc = 1 /\ ~is_empty(trimmed_line) /\ ~contains(trimmed_line, " ")
    \/ ends_with(trimmed_line, ";")
    \/ lc = 1 /\ is_empty(trimmed_line)

\* should_break without the ';' rule.
should_break_no_semicolon(lc, cel, trimmed_line) ==
    \/ cel >= 1
    \/ lc = 1 /\ ~is_empty(trimmed_line) /\ ~contains(trimmed_line, " ")
    \/ lc = 1 /\ is_empty(trimmed_line)

\* should_break with the ';' rule on the first line only.
should_break_semicolon_first(lc, cel, trimmed_line) ==
    \/ cel >= 1
    \/ lc = 1 /\ ~is_empty(trimmed_line) /\ ~contains(trimmed_line, " ")
    \/ lc = 1 /\ ends_with(trimmed_line, ";")
    \/ lc = 1 /\ is_empty(trimmed_line)

\* The conditions under which the inner loop breaks, after line_count and
\* consecutive_empty_lines have been updated for the line.
should_break(lc, cel, trimmed_line) ==
    \/ cel >= 1
    \/ lc = 1 /\ ~is_empty(trimmed_line) /\ ~contains(trimmed_line, " ")
    \/ ends_with(trimmed_line, ";")
    \/ lc = 1 /\ is_empty(trimmed_line)

-----------------------------------------------------------------------------
(* The router of the shell, handle_repl lines 430-457 *)

\* route testing the generic "explain " before its sub-forms.
route_explain_first(lower_input) ==
    IF starts_with(lower_input, VALIDATE_) THEN "Validate"
    ELSE IF starts_with(lower_input, EXPLAIN_) THEN "Explain"
    ELSE IF starts_with(lower_input, EXPLAIN_SCHEMA_) THEN "ExplainSchema"
    ELSE IF starts_with(lower_input, EXPLAIN_GRAPHQL_) THEN "ExplainGraphql"
    ELSE IF starts_with(lower_input, EXPLAIN_VERSION) THEN "ExplainVersion"
    ELSE IF starts_with(lower_input, EXPLAIN_CONNECTORS) THEN "ExplainConnectors"
    ELSE IF starts_with(lower_input, EXPLAIN_ATTRIBUTES_) THEN "ExplainAttributes"
    ELSE IF starts_with(lower_input, QUERY_) THEN "Query"
    ELSE IF lower_input = HELP \/ lower_input = H THEN "Help"
    ELSE IF lower_input = CLEAR THEN "Clear"
    ELSE IF lower_input = EXIT THEN "Exit"
    ELSE "Invalid"

\* route sending what it does not recognize to the server as a query.
route_no_invalid(lower_input) ==
    IF starts_with(lower_input, VALIDATE_) THEN "Validate"
    ELSE IF starts_with(lower_input, EXPLAIN_SCHEMA_) THEN "ExplainSchema"
    ELSE IF starts_with(lower_input, EXPLAIN_GRAPHQL_) THEN "ExplainGraphql"
    ELSE IF starts_with(lower_input, EXPLAIN_VERSION) THEN "ExplainVersion"
    ELSE IF starts_with(lower_input, EXPLAIN_CONNECTORS) THEN "ExplainConnectors"
    ELSE IF starts_with(lower_input, EXPLAIN_ATTRIBUTES_) THEN "ExplainAttributes"
    ELSE IF starts_with(lower_input, EXPLAIN_) THEN "Explain"
    ELSE IF lower_input = HELP \/ lower_input = H THEN "Help"
    ELSE IF lower_input = CLEAR THEN "Clear"
    ELSE IF lower_input = EXIT THEN "Exit"
    ELSE "Query"

route(lower_input) ==
    IF starts_with(lower_input, VALIDATE_) THEN "Validate"
    ELSE IF starts_with(lower_input, EXPLAIN_SCHEMA_) THEN "ExplainSchema"
    ELSE IF starts_with(lower_input, EXPLAIN_GRAPHQL_) THEN "ExplainGraphql"
    ELSE IF starts_with(lower_input, EXPLAIN_VERSION) THEN "ExplainVersion"
    ELSE IF starts_with(lower_input, EXPLAIN_CONNECTORS) THEN "ExplainConnectors"
    ELSE IF starts_with(lower_input, EXPLAIN_ATTRIBUTES_) THEN "ExplainAttributes"
    ELSE IF starts_with(lower_input, EXPLAIN_) THEN "Explain"
    ELSE IF starts_with(lower_input, QUERY_) THEN "Query"
    ELSE IF lower_input = HELP \/ lower_input = H THEN "Help"
    ELSE IF lower_input = CLEAR THEN "Clear"
    ELSE IF lower_input = EXIT THEN "Exit"
    ELSE "Invalid"

\* command_text handing over the case-folded text.
command_text_lower(trimmed) == to_lowercase(trimmed)

\* The text handed to the handlers: handle_*(trimmed_input, ...).
command_text(trimmed) == trimmed

\* dispatch_command up to request.send(): the client is built, the payload
\* {"q": query} is attached and the request is sent; a build failure returns
\* Err before anything is sent.
StartDispatch(buf, lc, cel, trimmed, k) ==
    /\ trimmed_input' = trimmed
    /\ kind' = k
    /\ exit_code' = exit_code
    /\ \E build_ok \in BOOLEAN :
       IF build_ok
       THEN /\ pc' = "dispatch"
            /\ sent' = <<command_text(trimmed)>>
            /\ report' = "none" /\ outcome' = NoOutcome
            /\ input' = buf
            /\ line_count' = lc
            /\ consecutive_empty_lines' = cel
       ELSE /\ pc' = "readline"
            /\ sent' = <<>>
            /\ report' = "dispatch_error" /\ outcome' = build_error
            /\ LoopTop

\* handle_help, handle_clear, handle_exit, handle_invalid_command
LocalCommand(trimmed, k) ==
    /\ trimmed_input' = trimmed
    /\ kind' = k
    /\ sent' = <<>>
    /\ LoopTop
    /\ CASE k = "Help"  -> pc' = "readline" /\ report' = "help" /\ outcome' = NoOutcome /\ exit_code' = exit_code
         [] k = "Clear" -> \E clear_ok \in BOOLEAN :
                           IF clear_ok
                           THEN pc' = "readline" /\ report' = "clear" /\ outcome' = NoOutcome /\ exit_code' = exit_code
                           ELSE pc' = "exit" /\ report' = "panic" /\ outcome' = NoOutcome /\ exit_code' = 101
         [] k = "Exit"  -> pc' = "exit" /\ report' = "goodbye" /\ outcome' = NoOutcome /\ exit_code' = 0
         [] OTHER       -> pc' = "readline" /\ report' = "invalid" /\ outcome' = NoOutcome /\ exit_code' = exit_code

\* if trimmed_input.is_empty() { continue; }
SkipEmpty ==
    /\ trimmed_input' = <<>>
    /\ kind' = "none"
    /\ sent' = <<>>
    /\ report' = "none" /\ outcome' = NoOutcome
    /\ pc' = "readline"
    /\ exit_code' = exit_code
    /\ LoopTop

\* Process without the empty-input skip: the empty command reaches the router.
Process_no_skip(buf, lc, cel) ==
    LET trimmed == trim(buf)
        k == route(to_lowercase(trimmed))
    IN  IF k \in ServerKinds THEN StartDispatch(buf, lc, cel, trimmed, k)
        ELSE LocalCommand(trimmed, k)

\* The body of the outer loop after the inner loop breaks (lines 420-457).
Process(buf, lc, cel) ==
    LET trimmed == trim(buf)
        k == route(to_lowercase(trimmed))
    IN  IF is_empty(trimmed) THEN SkipEmpty
        ELSE IF k \in ServerKinds THEN StartDispatch(buf, lc, cel, trimmed, k)
        ELSE LocalCommand(trimmed, k)

\* The \reset branch (lines 359-367); clearscreen::clear().expect(..) panics
\* when the screen cannot be cleared.
Reset ==
    /\ LoopTop
    /\ staged' = FALSE
    /\ discarded' = input
    /\ trimmed_input' = <<>>
    /\ kind' = "none"
    /\ sent' = <<>>
    /\ since' = <<>>
    /\ \E clear_ok \in BOOLEAN :
       IF clear_ok
       THEN pc' = "readline" /\ report' = "clear" /\ outcome' = NoOutcome /\ exit_code' = exit_code
       ELSE pc' = "exit" /\ report' = "panic" /\ outcome' = NoOutcome /\ exit_code' = 101

\* Ok(line) => { ... }: one line delivered by rl_editor.readline.
ReadLine(line) ==
    /\ UNCHANGED <<call_vars, config_vars, main_vars>>
    /\ pc = "readline"
    /\ line_count < MaxLines
    /\ event' = [type |-> "line", line |-> line, resp |-> NoResponse]
    /\ LET trimmed_line == trim(line)
           lower_line == to_lowercase(trimmed_line)
           buf == push_line(input, line)
           lc == line_count + 1
           cel == count_empty(consecutive_empty_lines, trimmed_line)
       IN  IF is_reset(line_count, lower_line) THEN Reset
           ELSE IF should_break(lc, cel, trimmed_line)
                THEN /\ Process(buf, lc, cel)
                     /\ since' = <<>>
                     /\ staged' = TRUE
                     /\ discarded' = <<>>
                ELSE /\ input' = buf
                     /\ line_count' = lc
                     /\ consecutive_empty_lines' = cel
                     /\ since' = Append(since, line)
                     /\ trimmed_input' = <<>>
                     /\ kind' = "none"
                     /\ sent' = <<>>
                     /\ report' = "none" /\ outcome' = NoOutcome
                     /\ staged' = FALSE
                     /\ discarded' = <<>>
                     /\ UNCHANGED <<pc, exit_code>>

\* Interrupt delivered while a request is outstanding: the request is
\* abandoned and the shell prompts again.
Interrupt_in_flight ==
    /\ UNCHANGED <<call_vars, config_vars, main_vars>>
    /\ pc \in {"readline", "dispatch"}
    /\ pc' = "readline"
    /\ event' = [type |-> "interrupt", line |-> <<>>, resp |-> NoResponse]
    /\ LoopTop
    /\ since' = <<>>
    /\ staged' = FALSE
    /\ discarded' = input
    /\ trimmed_input' = <<>>
    /\ kind' = "none"
    /\ sent' = <<>>
    /\ report' = "^C" /\ outcome' = NoOutcome
    /\ UNCHANGED exit_code

\* Interrupt that keeps the buffer and only resets the counters.
Interrupt_keep_buffer ==
    /\ UNCHANGED <<call_vars, config_vars, main_vars>>
    /\ pc = "readline"
    /\ event' = [type |-> "interrupt", line |-> <<>>, resp |-> NoResponse]
    /\ line_count' = 0
    /\ consecutive_empty_lines' = 0
    /\ since' = <<>>
    /\ staged' = FALSE
    /\ discarded' = input
    /\ trimmed_input' = <<>>
    /\ kind' = "none"
    /\ sent' = <<>>
    /\ report' = "^C" /\ outcome' = NoOutcome
    /\ UNCHANGED <<pc, exit_code, input>>

\* Err(ReadlineError::Interrupted) => { ... continue; }
Interrupt ==
    /\ UNCHANGED <<call_vars, config_vars, main_vars>>
    /\ pc = "readline"
    /\ event' = [type |-> "interrupt", line |-> <<>>, resp |-> NoResponse]
    /\ LoopTop
    /\ since' = <<>>
    /\ staged' = FALSE
    /\ discarded' = input
    /\ trimmed_input' = <<>>
    /\ kind' = "none"
    /\ sent' = <<>>
    /\ report' = "^C" /\ outcome' = NoOutcome
    /\ UNCHANGED <<pc, exit_code>>

\* Eof that only abandons the current command and prompts again.
Eof_continue ==
    /\ UNCHANGED <<call_vars, config_vars, main_vars>>
    /\ pc = "readline"
    /\ event' = [type |-> "eof", line |-> <<>>, resp |-> NoResponse]
    /\ report' = "none" /\ outcome' = NoOutcome
    /\ trimmed_input' = <<>>
    /\ kind' = "none"
    /\ sent' = <<>>
    /\ staged' = FALSE
    /\ discarded' = <<>>
    /\ UNCHANGED <<pc, exit_code, input, line_count, consecutive_empty_lines, since>>

\* Err(ReadlineError::Eof) => save_history_and_exit: the history is saved
\* (a failure only warns), the goodbye is printed, std::process::exit(0).
Eof ==
    /\ UNCHANGED <<call_vars, config_vars, main_vars>>
    /\ pc = "readline"
    /\ event' = [type |-> "eof", line |-> <<>>, resp |-> NoResponse]
    /\ pc' = "exit"
    /\ exit_code' = 0
    /\ report' = "goodbye" /\ outcome' = NoOutcome
    /\ trimmed_input' = <<>>
    /\ kind' = "none"
    /\ sent' = <<>>
    /\ staged' = FALSE
    /\ discarded' = <<>>
    /\ UNCHANGED <<input, line_count, consecutive_empty_lines, since>>

\* ReadError starting the command over.
ReadError_clear ==
    /\ UNCHANGED <<call_vars, config_vars, main_vars>>
    /\ pc = "readline"
    /\ event' = [type |-> "error", line |-> <<>>, resp |-> NoResponse]
    /\ report' = "read_error" /\ outcome' = NoOutcome
    /\ trimmed_input' = <<>>
    /\ kind' = "none"
    /\ sent' = <<>>
    /\ staged' = FALSE
    /\ discarded' = <<>>
    /\ LoopTop
    /\ since' = <<>>
    /\ UNCHANGED <<pc, exit_code>>

\* Err(err) => { eprintln!(..); continue; }
ReadError ==
    /\ UNCHANGED <<call_vars, config_vars, main_vars>>
    /\ pc = "readline"
    /\ event' = [type |-> "error", line |-> <<>>, resp |-> NoResponse]
    /\ report' = "read_error" /\ outcome' = NoOutcome
    /\ trimmed_input' = <<>>
    /\ kind' = "none"
    /\ sent' = <<>>
    /\ staged' = FALSE
    /\ discarded' = <<>>
    /\ UNCHANGED <<pc, exit_code, input, line_count, consecutive_empty_lines, since>>

\* render printing nothing when the body does not decode.
render_drop_raw(k, r) == r

\* The match of a shell handler on Ok(response_text): the body is decoded
\* against the response type of the handler and printed decoded, or printed
\* raw when it does not decode (handle_validate .. handle_query).
render(k, r) ==
    IF decodes(k, r.body, FALSE) THEN r ELSE [r EXCEPT !.raw = r.body]

\* Respond sending the request a second time after a transport error.
Respond_retry(resp) ==
    /\ UNCHANGED <<call_vars, config_vars, main_vars>>
    /\ pc = "dispatch"
    /\ resp \in Responses
    /\ event' = [type |-> "response", line |-> <<>>, resp |-> resp]
    /\ UNCHANGED <<trimmed_input, kind, since, staged, discarded>>
    /\ IF resp.send = "error" /\ Len(sent) < 2
       THEN /\ sent' = sent \o sent
            /\ UNCHANGED <<pc, input, line_count, consecutive_empty_lines,
                           report, exit_code, outcome>>
       ELSE /\ sent' = sent
            /\ IF dispatch_panics(resp)
               THEN /\ pc' = "exit" /\ report' = "panic" /\ exit_code' = 101
                    /\ outcome' = NoOutcome
                    /\ UNCHANGED <<input, line_count, consecutive_empty_lines>>
               ELSE LET r == dispatch_result(resp)
                    IN  /\ pc' = "readline"
                        /\ exit_code' = exit_code
                        /\ LoopTop
                        /\ IF r.cause # "ok"
                           THEN report' = "dispatch_error" /\ outcome' = r
                           ELSE /\ outcome' = render(kind, r)
                                /\ report' = IF decodes(kind, r.body, FALSE)
                                             THEN "decoded" ELSE "raw"

\* dispatch_command from request.send() on, and the handler's match on its
\* result: Err is printed; a 2xx body is decoded against the schema of the
\* handler and printed decoded or raw; response.text().unwrap() panics on a
\* 2xx body that cannot be read.
Respond(resp) ==
    /\ UNCHANGED <<call_vars, config_vars, main_vars>>
    /\ pc = "dispatch"
    /\ resp \in Responses
    /\ event' = [type |-> "response", line |-> <<>>, resp |-> resp]
    /\ UNCHANGED <<trimmed_input, kind, sent, since, staged, discarded>>
    /\ IF dispatch_panics(resp)
       THEN /\ pc' = "exit" /\ report' = "panic" /\ exit_code' = 101
            /\ outcome' = NoOutcome
            /\ UNCHANGED <<input, line_count, consecutive_empty_lines>>
       ELSE LET r == dispatch_result(resp)
            IN  /\ pc' = "readline"
                /\ exit_code' = exit_code
                /\ LoopTop
                /\ IF r.cause # "ok"
                   THEN report' = "dispatch_error" /\ outcome' = r
                   ELSE /\ outcome' = render(kind, r)
                        /\ report' = IF decodes(kind, r.body, FALSE) THEN "decoded" ELSE "raw"

\* No handler has been called: the credential and the printed lines are not
\* followed.
NoCall ==
    /\ token = <<>>
    /\ verbose = FALSE
    /\ headers = {}
    /\ out = <<>>
    /\ diag = <<>>

\* Option::None and Option::Some(token).
None == <<>>

Some(tok) == <<tok>>

\* No get_token has been made.
NotAsked == <<"not asked">>

\* Config::default(): no tokens.
NoConfig ==
    /\ api_keys = {}
    /\ got = NotAsked
    /\ calls = <<>>

\* The defaults of Args (main.rs lines 80-120) on a terminal.
DefaultArgs ==
    [token |-> None, host |-> "api.query.ai", path |-> "search/translation/fsql",
     port |-> 443, file |-> None, command |-> None, tty |-> TRUE]

\* config.toml does not exist.
NoFile == [state |-> "absent", keys |-> {}]

\* main is not followed: default arguments, no config file, no mode.
NoMain ==
    /\ args = DefaultArgs
    /\ stored = NoFile
    /\ mode = "none"
    /\ api_url = <<>>

Init ==
    /\ pc = "readline"
    /\ input = <<>>
    /\ line_count = 0
    /\ consecutive_empty_lines = 0
    /\ trimmed_input = <<>>
    /\ kind = "none"
    /\ sent = <<>>
    /\ report = "none"
    /\ exit_code = -1
    /\ event = [type |-> "start", line |-> <<>>, resp |-> NoResponse]
    /\ since = <<>>
    /\ staged = FALSE
    /\ discarded = <<>>
    /\ outcome = NoOutcome
    /\ NoCall
    /\ NoConfig
    /\ NoMain

Next ==
    \/ \E line \in InputLines : ReadLine(line)
    \/ Interrupt
    \/ Eof
    \/ ReadError
    \/ \E resp \in Responses : Respond(resp)

Spec == Init /\ [][Next]_vars

-----------------------------------------------------------------------------
(* The one-shot modes: main.rs lines 128-152 and stdio.rs *)

SUMMARIZE_ == <<"s","u","m","m","a","r","i","z","e"," ">>

\* The if-chain of process_command (stdio.rs lines 340-361).
process_kind(lower_input) ==
    IF starts_with(lower_input, EXPLAIN_CONNECTORS) THEN "ExplainConnectors"
    ELSE IF starts_with(lower_input, EXPLAIN_SCHEMA_) THEN "ExplainSchema"
    ELSE IF starts_with(lower_input, EXPLAIN_GRAPHQL_) THEN "ExplainGraphql"
    ELSE IF starts_with(lower_input, EXPLAIN_VERSION) THEN "ExplainVersion"
    ELSE IF starts_with(lower_input, EXPLAIN_ATTRIBUTES_) THEN "ExplainAttributes"
    ELSE IF starts_with(lower_input, EXPLAIN_) THEN "Explain"
    ELSE IF starts_with(lower_input, SUMMARIZE_) THEN "Summarize"
    ELSE IF starts_with(lower_input, VALIDATE_) THEN "Validate"
    ELSE IF starts_with(lower_input, QUERY_) THEN "Query"
    ELSE "Invalid"

\* The kind process_command selects for its input (lines 334-361).
classify_oneshot(text) ==
    IF is_empty(text) THEN "Invalid" ELSE process_kind(to_lowercase(text))

\* The kind the shell selects for a buffer (repl.rs lines 420-457); "none"
\* when the empty command is skipped.
classify_shell(buf) ==
    IF is_empty(trim(buf)) THEN "none" ELSE route(to_lowercase(trim(buf)))

\* oneshot_exit ending the process with 0 after a dispatch failure.
oneshot_exit_error_ok(k, r, d) ==
    IF r.cause # "ok" THEN 0
    ELSE IF k = "Validate" THEN (IF d /\ IsValid(r.body) THEN 0 ELSE 1)
    ELSE 0

\* oneshot_exit ending the process with 0 whatever the validity.
oneshot_exit_validate_zero(k, r, d) ==
    IF r.cause # "ok" THEN 1 ELSE 0

\* oneshot_exit ending the process with 1 whenever the body did not decode.
oneshot_exit_raw_fails(k, r, d) ==
    IF r.cause # "ok" THEN 1
    ELSE IF ~d THEN 1
    ELSE IF k = "Validate" THEN (IF IsValid(r.body) THEN 0 ELSE 1)
    ELSE 0

\* The exit code a one-shot handler ends the process with, for the value r
\* dispatch_command returned and d, whether the body decoded: Err exits 1;
\* handle_validate exits 0 only on a decoded is_valid = true; every other
\* handler returns and main ends with 0.
oneshot_exit(k, r, d) ==
    IF r.cause # "ok" THEN 1
    ELSE IF k = "Validate" THEN (IF d /\ IsValid(r.body) THEN 0 ELSE 1)
    ELSE 0

\* What a one-shot handler prints for Ok(response_text).
oneshot_report(k, r, d) ==
    IF ~d THEN "raw"
    ELSE IF k = "Validate" THEN (IF IsValid(r.body) THEN "valid" ELSE "not_valid")
    ELSE "decoded"

\* The raw text a one-shot handler falls back to: eprintln!("{}", response_text).
oneshot_render(r, d) == IF d THEN r ELSE [r EXCEPT !.raw = r.body]

\* Upper-case form of a text, to build inputs in the other letter case.
upper_char(c) ==
    IF \E i \in 1..26 : LowerCase[i] = c
    THEN UpperCase[CHOOSE i \in 1..26 : LowerCase[i] = c]
    ELSE c

to_uppercase(s) == [i \in 1..Len(s) |-> upper_char(s[i])]

\* The leading words of the command texts given to the routers.
RouterWords ==
    { QUERY_, VALIDATE_, SUMMARIZE_, EXPLAIN_, EXPLAIN_SCHEMA_, EXPLAIN_GRAPHQL_,
      EXPLAIN_VERSION, EXPLAIN_CONNECTORS, EXPLAIN_ATTRIBUTES_,
      <<"e","x","p","l","a","i","n">>, HELP, EXIT, Hello, <<>> }

\* Command texts: a word in either letter case, bare or followed by an
\* argument, with and without white space around it.
RouterTexts ==
    { lead \o w \o rest :
        lead \in {<<>>, <<" ">>},
        w \in RouterWords \cup {to_uppercase(x) : x \in RouterWords},
        rest \in {<<>>, <<"x">>, <<"X","\n">>} }

\* process_command (stdio.rs lines 333-362) up to request.send() in the
\* handler's dispatch_command: an empty or unrecognized input prints the
\* invalid-command message and exits 1; a client build failure makes the
\* handler print the error and exit 1.
process_command(text) ==
    LET k == classify_oneshot(text)
    IN  /\ trimmed_input' = text
        /\ kind' = k
        /\ IF k = "Invalid"
           THEN /\ pc' = "exit" /\ exit_code' = 1
                /\ report' = "invalid" /\ outcome' = NoOutcome
                /\ sent' = <<>>
           ELSE \E build_ok \in BOOLEAN :
                IF build_ok
                THEN /\ pc' = "request" /\ exit_code' = exit_code
                     /\ report' = "none" /\ outcome' = NoOutcome
                     /\ sent' = <<text>>
                ELSE /\ pc' = "exit" /\ exit_code' = oneshot_exit(k, build_error, FALSE)
                     /\ report' = "dispatch_error" /\ outcome' = build_error
                     /\ sent' = <<>>

\* main with -c on a terminal: process_command(&command, ..), the argument
\* is passed as it is (main.rs lines 129-138).
RunCommand(text) ==
    /\ UNCHANGED <<call_vars, config_vars, main_vars>>
    /\ pc = "main"
    /\ event' = [type |-> "command", line |-> text, resp |-> NoResponse]
    /\ input' = text
    /\ process_command(text)
    /\ UNCHANGED <<line_count, consecutive_empty_lines, since, staged, discarded>>

\* A payload that cannot be read: handle_file / handle_stdin exit with 1.
ReadFailed ==
    /\ input' = <<>>
    /\ trimmed_input' = <<>>
    /\ kind' = "none"
    /\ sent' = <<>>
    /\ pc' = "exit" /\ exit_code' = 1
    /\ report' = "read_error" /\ outcome' = NoOutcome

\* main with -f on a terminal: handle_file reads the whole file, trims it
\* and calls process_command (stdio.rs lines 383-397).
RunFile(content) ==
    /\ UNCHANGED <<call_vars, config_vars, main_vars>>
    /\ pc = "main"
    /\ event' = [type |-> "file", line |-> content, resp |-> NoResponse]
    /\ \E read_ok \in BOOLEAN :
          IF read_ok
          THEN input' = content /\ process_command(trim(content))
          ELSE ReadFailed
    /\ UNCHANGED <<line_count, consecutive_empty_lines, since, staged, discarded>>

\* RunStdin handing over the first line of the payload only.
RunStdin_first_line(content) ==
    /\ UNCHANGED <<call_vars, config_vars, main_vars>>
    /\ pc = "main"
    /\ event' = [type |-> "stdin", line |-> content, resp |-> NoResponse]
    /\ \E read_ok \in BOOLEAN :
          IF read_ok
          THEN LET first_line ==
                       IF contains(content, "\n")
                       THEN SubSeq(content, 1,
                                   SetMin({i \in 1..Len(content) : content[i] = "\n"}) - 1)
                       ELSE content
               IN  input' = content /\ process_command(trim(first_line))
          ELSE ReadFailed
    /\ UNCHANGED <<line_count, consecutive_empty_lines, since, staged, discarded>>

\* main with piped stdin and neither -c nor -f: handle_stdin reads all of
\* stdin, trims it and calls process_command (stdio.rs lines 365-380).
RunStdin(content) ==
    /\ UNCHANGED <<call_vars, config_vars, main_vars>>
    /\ pc = "main"
    /\ event' = [type |-> "stdin", line |-> content, resp |-> NoResponse]
    /\ \E read_ok \in BOOLEAN :
          IF read_ok
          THEN input' = content /\ process_command(trim(content))
          ELSE ReadFailed
    /\ UNCHANGED <<line_count, consecutive_empty_lines, since, staged, discarded>>

\* main with -c or -f while stdin is not a terminal: exit(1)
\* (main.rs lines 130-136 and 140-146); text is the command given with -c or
\* held by the file, which is not looked at.
PipeConflict(text) ==
    /\ UNCHANGED <<call_vars, config_vars, main_vars>>
    /\ pc = "main"
    /\ event' = [type |-> "conflict", line |-> text, resp |-> NoResponse]
    /\ pc' = "exit" /\ exit_code' = 1
    /\ report' = "conflict" /\ outcome' = NoOutcome
    /\ UNCHANGED <<input, trimmed_input, kind, sent, line_count,
                   consecutive_empty_lines, since, staged, discarded>>

\* main without -c, -f or piped stdin: repl::handle_repl (main.rs line 151).
EnterRepl ==
    /\ UNCHANGED <<call_vars, config_vars, main_vars>>
    /\ pc = "main"
    /\ pc' = "readline"
    /\ event' = [type |-> "repl", line |-> <<>>, resp |-> NoResponse]
    /\ UNCHANGED <<input, line_count, consecutive_empty_lines, trimmed_input, kind,
                   sent, report, exit_code, since, staged, discarded, outcome>>

\* RespondOneShot sending the request again after a transport error.
RespondOneShot_again(resp) ==
    /\ UNCHANGED <<call_vars, config_vars, main_vars>>
    /\ pc = "request"
    /\ resp \in Responses
    /\ event' = [type |-> "response", line |-> <<>>, resp |-> resp]
    /\ UNCHANGED <<input, line_count, consecutive_empty_lines, trimmed_input, kind,
                   since, staged, discarded>>
    /\ IF resp.send = "error" /\ Len(sent) < 2
       THEN /\ sent' = sent \o sent
            /\ UNCHANGED <<pc, report, outcome, exit_code>>
       ELSE /\ sent' = sent
            /\ pc' = "exit"
            /\ IF dispatch_panics(resp)
               THEN report' = "panic" /\ outcome' = NoOutcome /\ exit_code' = 101
               ELSE LET r == dispatch_result(resp)
                    IN  IF r.cause # "ok"
                        THEN /\ report' = "dispatch_error" /\ outcome' = r
                             /\ exit_code' = oneshot_exit(kind, r, FALSE)
                        ELSE \E unknown_ok \in BOOLEAN :
                             LET d == decodes(kind, r.body, unknown_ok)
                             IN  /\ report' = oneshot_report(kind, r, d)
                                 /\ outcome' = oneshot_render(r, d)
                                 /\ exit_code' = oneshot_exit(kind, r, d)

\* dispatch_command from request.send() on and the match of the one-shot
\* handler on its result (stdio.rs handle_*): Err prints the error and
\* exits 1; Ok decodes the body against the response type of the handler,
\* prints it decoded or raw, and the process ends.
RespondOneShot(resp) ==
    /\ UNCHANGED <<call_vars, config_vars, main_vars>>
    /\ pc = "request"
    /\ resp \in Responses
    /\ event' = [type |-> "response", line |-> <<>>, resp |-> resp]
    /\ pc' = "exit"
    /\ UNCHANGED <<input, line_count, consecutive_empty_lines, trimmed_input, kind,
                   sent, since, staged, discarded>>
    /\ IF dispatch_panics(resp)
       THEN report' = "panic" /\ outcome' = NoOutcome /\ exit_code' = 101
       ELSE LET r == dispatch_result(resp)
            IN  IF r.cause # "ok"
                THEN /\ report' = "dispatch_error" /\ outcome' = r
                     /\ exit_code' = oneshot_exit(kind, r, FALSE)
                ELSE \E unknown_ok \in BOOLEAN :
                     LET d == decodes(kind, r.body, unknown_ok)
                     IN  /\ report' = oneshot_report(kind, r, d)
                         /\ outcome' = oneshot_render(r, d)
                         /\ exit_code' = oneshot_exit(kind, r, d)

\* The process at main.rs line 128, the token resolved.
InitMain ==
    /\ pc = "main"
    /\ input = <<>>
    /\ line_count = 0
    /\ consecutive_empty_lines = 0
    /\ trimmed_input = <<>>
    /\ kind = "none"
    /\ sent = <<>>
    /\ report = "none"
    /\ exit_code = -1
    /\ event = [type |-> "start", line |-> <<>>, resp |-> NoResponse]
    /\ since = <<>>
    /\ staged = FALSE
    /\ discarded = <<>>
    /\ outcome = NoOutcome
    /\ NoCall
    /\ NoConfig
    /\ NoMain

\* Payloads of several lines: a line ending with ';', a blank line, a
\* one-word first line and white space around, inside one payload.
Payloads ==
    { <<"q","u","e","r","y"," ","a",";","\n","b">>,
      <<"q","u","e","r","y"," ","a","\n","\n","b","\n">>,
      <<"\n"," ","E","x","p","l","a","i","n"," ","v","e","r","s","i","o","n",
        "\n","\n","q","u","e","r","y"," ","x",";","\n">>,
      <<"h","e","l","p","\n","q","u","e","r","y"," ","x">> }

NextOneShot ==
    \/ \E text \in RouterTexts : RunCommand(text)
    \/ \E content \in RouterTexts \cup Payloads : RunFile(content)
    \/ \E content \in RouterTexts \cup Payloads : RunStdin(content)
    \/ \E text \in RouterTexts : PipeConflict(text)
    \/ \E resp \in Responses : RespondOneShot(resp)

\* The one-shot modes alone.
OneShotSpec == InitMain /\ [][NextOneShot]_vars

\* The one-shot modes with the steps the program is bound to take: the
\* payload is read to its end and request.send() returns within the
\* timeouts of the client (api.rs lines 153-154).
OneShotFairSpec == OneShotSpec /\ WF_vars(NextOneShot)

NextProgram ==
    \/ EnterRepl
    \/ \E line \in InputLines : ReadLine(line)
    \/ Interrupt
    \/ Eof
    \/ ReadError
    \/ \E resp \in Responses : Respond(resp)
    \/ \E text \in RouterTexts : RunCommand(text)
    \/ \E content \in RouterTexts : RunFile(content)
    \/ \E content \in RouterTexts : RunStdin(content)
    \/ \E text \in RouterTexts : PipeConflict(text)
    \/ \E resp \in Responses : RespondOneShot(resp)

\* The whole program: the mode selected by main, then the shell or a
\* one-shot mode.
ProgramSpec == InitMain /\ [][NextProgram]_vars

-----------------------------------------------------------------------------
(* The two routers applied to the same command texts *)

\* The shell's routing of a staged buffer (repl.rs lines 420-457).
ClassifyShell(text) ==
    /\ UNCHANGED <<call_vars, config_vars, main_vars>>
    /\ pc = "router"
    /\ pc' = "routed_shell"
    /\ event' = [type |-> "shell", line |-> text, resp |-> NoResponse]
    /\ input' = text
    /\ trimmed_input' = trim(text)
    /\ kind' = classify_shell(text)
    /\ UNCHANGED <<line_count, consecutive_empty_lines, sent, report, exit_code,
                   since, staged, discarded, outcome>>

\* The routing of process_command for a -c argument (passed as it is) and
\* for a file or stdin payload (trimmed by handle_file / handle_stdin).
ClassifyOneShot(text, path) ==
    /\ UNCHANGED <<call_vars, config_vars, main_vars>>
    /\ pc = "router"
    /\ pc' = "routed_oneshot"
    /\ event' = [type |-> path, line |-> text, resp |-> NoResponse]
    /\ input' = text
    /\ trimmed_input' = (IF path = "command" THEN text ELSE trim(text))
    /\ kind' = classify_oneshot(IF path = "command" THEN text ELSE trim(text))
    /\ UNCHANGED <<line_count, consecutive_empty_lines, sent, report, exit_code,
                   since, staged, discarded, outcome>>

InitRouter ==
    /\ pc = "router"
    /\ input = <<>>
    /\ line_count = 0
    /\ consecutive_empty_lines = 0
    /\ trimmed_input = <<>>
    /\ kind = "none"
    /\ sent = <<>>
    /\ report = "none"
    /\ exit_code = -1
    /\ event = [type |-> "start", line |-> <<>>, resp |-> NoResponse]
    /\ since = <<>>
    /\ staged = FALSE
    /\ discarded = <<>>
    /\ outcome = NoOutcome
    /\ NoCall
    /\ NoConfig
    /\ NoMain

NextRouter ==
    \/ \E text \in RouterTexts : ClassifyShell(text)
    \/ \E text \in RouterTexts, path \in {"command", "file", "stdin"} :
          ClassifyOneShot(text, path)

RouterSpec == InitRouter /\ [][NextRouter]_vars

-----------------------------------------------------------------------------
(* api.rs: the credential and the request headers, lines 59-131 *)

MaxToken == 5

BEARER == <<"B","e","a","r","e","r"," ">>

Digits == {"0","1","2","3","4","5","6","7","8","9"}

\* char::is_alphanumeric on the ASCII range.
is_alphanumeric(c) ==
    \/ \E i \in 1..26 : LowerCase[i] = c \/ UpperCase[i] = c
    \/ c \in Digits

\* strip_bearer_prefix keeping the marker.
strip_bearer_prefix_keep(tok) == tok

\* strip_bearer_prefix: &token[7..] when the token starts with "Bearer ".
strip_bearer_prefix(tok) ==
    IF starts_with(tok, BEARER) THEN SubSeq(tok, Len(BEARER) + 1, Len(tok))
    ELSE tok

\* str::split(char): the segments between the separators; a text without
\* separator, the empty text included, is one segment.
RECURSIVE split(_, _)
split(s, sep) ==
    IF ~contains(s, sep) THEN <<s>>
    ELSE LET i == SetMin({j \in 1..Len(s) : s[j] = sep})
         IN  <<SubSeq(s, 1, i - 1)>> \o split(SubSeq(s, i + 1, Len(s)), sep)

\* is_jwt_token accepting empty segments.
is_jwt_token_empty_ok(tok) ==
    LET parts == split(tok, ".")
    IN  /\ Len(parts) = 3
        /\ \A p \in 1..3 :
              \A i \in 1..Len(parts[p]) :
                 is_alphanumeric(parts[p][i]) \/ parts[p][i] \in {"-", "_"}

\* is_jwt_token (lines 69-82)
is_jwt_token(tok) ==
    LET parts == split(tok, ".")
    IN  /\ Len(parts) = 3
        /\ \A p \in 1..3 :
              /\ ~is_empty(parts[p])
              /\ \A i \in 1..Len(parts[p]) :
                    is_alphanumeric(parts[p][i]) \/ parts[p][i] \in {"-", "_"}

\* Header names.
USER_AGENT == "user-agent"

X_QUERYAI_FUQL == "x-queryai-fuql"

CONTENT_TYPE == "content-type"

AUTHORIZATION == "authorization"

X_TOKEN_AUTHORIZATION == "x-token-authorization"

\* HeaderMap::insert: the value replaces any value the name had.
insert(map, name, value) ==
    {e \in map : e.name # name} \cup {[name |-> name, value |-> value]}

\* HeaderValue::from_str succeeds: no control character in the value.
header_value_ok(value) ==
    \A i \in 1..Len(value) : value[i] \notin {"\n", "\r"}

\* The three headers inserted at lines 98-109.
fixed_headers ==
    insert(insert(insert({}, USER_AGENT, <<"fsqlctl">>),
                  X_QUERYAI_FUQL, <<"v2">>),
           CONTENT_TYPE, <<"application/json">>)

DETECTED_JWT == "Detected JWT token - using Authorization header"

DETECTED_API_KEY == "Detected API key - using x-token-authorization header"

\* add_headers inserting the API-key header next to Authorization.
add_headers_both(tok, v) ==
    LET clean_token == strip_bearer_prefix(tok)
    IN  IF is_jwt_token(clean_token)
        THEN [panics  |-> ~header_value_ok(BEARER \o clean_token),
              headers |-> insert(insert(fixed_headers, AUTHORIZATION, BEARER \o clean_token),
                                 X_TOKEN_AUTHORIZATION, clean_token),
              diag    |-> IF v THEN <<DETECTED_JWT>> ELSE <<>>]
        ELSE [panics  |-> ~header_value_ok(clean_token),
              headers |-> insert(fixed_headers, X_TOKEN_AUTHORIZATION, clean_token),
              diag    |-> IF v THEN <<DETECTED_API_KEY>> ELSE <<>>]

\* add_headers (lines 90-131): the header map, the line printed in verbose
\* mode, and whether .expect("Header value is invalid") panics.
add_headers(tok, v) ==
    LET clean_token == strip_bearer_prefix(tok)
    IN  IF is_jwt_token(clean_token)
        THEN [panics  |-> ~header_value_ok(BEARER \o clean_token),
              headers |-> insert(fixed_headers, AUTHORIZATION, BEARER \o clean_token),
              diag    |-> IF v THEN <<DETECTED_JWT>> ELSE <<>>]
        ELSE [panics  |-> ~header_value_ok(clean_token),
              headers |-> insert(fixed_headers, X_TOKEN_AUTHORIZATION, clean_token),
              diag    |-> IF v THEN <<DETECTED_API_KEY>> ELSE <<>>]

\* Characters of the generated credentials: a letter, the separator and a
\* character that is neither alphanumeric nor '-' nor '_'.
TokenChars == {"a", ".", "+"}

\* Credentials written out: JWT shapes with '-', '_', digits and capitals,
\* four segments, an API key, and credentials with a control character.
NamedTokens ==
    { <<"A","-",".","b","_",".","9">>,
      <<"a",".","b",".","c",".","d">>,
      <<"k","e","y","-","1","2","3">>,
      <<"k","e","y","\n">>,
      <<"a",".","b",".","c","\n">>,
      <<"a"," ","b">> }

Markers == { <<>>, BEARER, to_lowercase(BEARER), BEARER \o BEARER }

Tokens ==
    { m \o body : m \in Markers,
                  body \in SeqsUpTo(TokenChars, MaxToken) \cup NamedTokens }

\* let clean_token = strip_bearer_prefix(token); if is_jwt_token(clean_token)
\* (lines 95 and 111): the branch add_headers takes.
Classify ==
    /\ pc = "token"
    /\ pc' = "classified"
    /\ report' = IF is_jwt_token(strip_bearer_prefix(token)) THEN "Jwt" ELSE "ApiKey"
    /\ UNCHANGED <<input, line_count, consecutive_empty_lines, trimmed_input,
                   kind, sent, exit_code, event, since, staged, discarded,
                   outcome, token, verbose, headers, out, diag, config_vars,
                   main_vars>>

\* The rest of add_headers: the header map is handed to the request
\* builder, or the process panics on a value that is not a header value.
BuildHeaders ==
    /\ pc = "classified"
    /\ LET h == add_headers(token, verbose)
       IN  /\ diag' = h.diag
           /\ IF h.panics
              THEN pc' = "exit" /\ exit_code' = 101 /\ headers' = {}
              ELSE pc' = "built" /\ exit_code' = exit_code /\ headers' = h.headers
    /\ UNCHANGED <<input, line_count, consecutive_empty_lines, trimmed_input,
                   kind, sent, report, event, since, staged, discarded,
                   outcome, token, verbose, out, config_vars, main_vars>>

InitToken ==
    /\ pc = "token"
    /\ input = <<>>
    /\ line_count = 0
    /\ consecutive_empty_lines = 0
    /\ trimmed_input = <<>>
    /\ kind = "none"
    /\ sent = <<>>
    /\ report = "none"
    /\ exit_code = -1
    /\ event = [type |-> "start", line |-> <<>>, resp |-> NoResponse]
    /\ since = <<>>
    /\ staged = FALSE
    /\ discarded = <<>>
    /\ outcome = NoOutcome
    /\ token \in Tokens
    /\ verbose \in BOOLEAN
    /\ headers = {}
    /\ out = <<>>
    /\ diag = <<>>
    /\ NoConfig
    /\ NoMain

NextToken ==
    \/ Classify
    \/ BuildHeaders

\* add_headers applied to every credential.
TokenSpec == InitToken /\ [][NextToken]_vars

-----------------------------------------------------------------------------
(* One call of a handler: dispatch_command as a whole (api.rs lines 134-272)
   and what the handler prints (repl.rs lines 12-291, stdio.rs lines 251-331) *)

\* The client cannot be built: ClientBuilder::build() returns Err.
NO_CLIENT == [send |-> "no_client", status |-> 0, readable |-> FALSE, body |-> ""]

\* What the environment does to one call: no client, or an outcome of
\* send() and text(), with the Query bodies of one and two results.
Envs ==
    {NO_CLIENT} \cup Responses
    \cup [send : {"ok"}, status : Statuses, readable : {TRUE},
          body : {BODY_QUERY_1, BODY_QUERY_2}]

\* The lines dispatch_command prints on stderr in verbose mode once the
\* request is sent.
trace(env) ==
    IF env.send = "error" THEN <<"Request failed to send", "Error details">>
    ELSE <<"Request sent successfully", "Status Code", "Response Headers">>
         \o (IF env.status \notin 200..299
             THEN <<"Status code">>
                  \o (IF env.readable THEN <<"Error response body", env.body>>
                      ELSE <<"Could not read error response body">>)
             ELSE <<"Reading response body">>)

\* dispatch_command: the request it sends, the value it returns or the
\* panic, and its stderr lines. The client is built before the headers
\* (line 155 before line 158); add_headers panics on a credential that is
\* not a header value; text().unwrap() panics on a 2xx body that cannot be
\* read.
dispatch_command(query, tok, v, env) ==
    LET pre == IF v THEN <<"Dispatching query to", "Payload", query>> ELSE <<>>
        h == add_headers(tok, v)
        post == pre \o h.diag \o (IF v THEN <<"Making POST request">> ELSE <<>>)
    IN  IF env.send = "no_client"
        THEN [panics |-> FALSE, sent |-> <<>>, headers |-> {},
              result |-> build_error, diag |-> pre]
        ELSE IF h.panics
        THEN [panics |-> TRUE, sent |-> <<>>, headers |-> {},
              result |-> NoOutcome, diag |-> pre \o h.diag]
        ELSE [panics |-> dispatch_panics(env), sent |-> <<query>>,
              headers |-> h.headers,
              result |-> IF dispatch_panics(env) THEN NoOutcome
                         ELSE dispatch_result(env),
              diag |-> post \o (IF v THEN trace(env) ELSE <<>>)]

\* A line of stdout: a text, preceded by a number when n >= 0.
stdout_line(text) == [n |-> -1, text |-> text]

\* result_phrase using the singular for no result too.
result_phrase_upto_one(total) ==
    IF total <= 1 THEN [n |-> total, text |-> " result found"]
    ELSE [n |-> total, text |-> " results found"]

\* repl.rs lines 272-277: println!("{} result found" / "{} results found").
result_phrase(total) ==
    IF total = 1 THEN [n |-> total, text |-> " result found"]
    ELSE [n |-> total, text |-> " results found"]

\* The handlers followed call by call.
HandlerKinds == {"Validate", "Query"}

\* The command text given to the handler of a kind.
CommandOf(k) ==
    IF k = "Validate" THEN VALIDATE_ \o <<"x">> ELSE QUERY_ \o <<"x">>

\* stdout of the shell handlers for Ok(response_text) (repl.rs lines 15-38
\* and 255-285): the decoded rendering, preceded in verbose mode by the
\* command (and the trace id), or the raw body.
shell_stdout(k, body, v) ==
    IF ~decodes(k, body, FALSE) THEN <<stdout_line(body)>>
    ELSE IF k = "Validate"
    THEN (IF v THEN <<stdout_line("Command:"), stdout_line("data.command"), stdout_line("")>> ELSE <<>>)
         \o (IF IsValid(body) THEN <<stdout_line("Query is valid")>> ELSE <<>>)
    ELSE (IF v THEN <<stdout_line("Command: data.command"), stdout_line(""),
                      stdout_line("Trace ID: data.trace_id"), stdout_line("")>> ELSE <<>>)
         \o <<stdout_line("Search ID: data.search_id"), stdout_line(""), stdout_line("Results:"),
              stdout_line("data.results"), result_phrase(ResultCount(body))>>

\* stderr of the shell handlers after dispatch_command returned r.
shell_stderr(k, r, v) ==
    IF r.cause # "ok" THEN <<"Error dispatching command">>
    ELSE IF ~decodes(k, r.body, FALSE)
    THEN (IF v THEN <<"Failed to parse response as JSON">> ELSE <<>>)
    ELSE IF k = "Validate" /\ ~IsValid(r.body) THEN <<"Query is invalid">>
    ELSE <<>>

\* stdout of the one-shot handlers (stdio.rs lines 254-279 and 297-323):
\* only the results of a decoded Query.
oneshot_stdout(k, body, v) ==
    IF k = "Query" /\ decodes(k, body, FALSE) THEN <<stdout_line("data.results")>>
    ELSE <<>>

\* stderr of the one-shot handlers after dispatch_command returned r.
oneshot_stderr(k, r, v) ==
    IF r.cause # "ok" THEN <<"Error dispatching command">>
    ELSE IF ~decodes(k, r.body, FALSE)
    THEN (IF v THEN <<"Failed to parse response as JSON">> ELSE <<>>) \o <<r.body>>
    ELSE IF k = "Validate"
    THEN (IF v THEN <<"Command:", "data.command", "">> ELSE <<>>)
         \o (IF IsValid(r.body) THEN <<"Query is valid">> ELSE <<"Query is invalid">>)
    ELSE (IF v THEN <<"Command:", "data.command", "", "Trace ID:",
                      "data.trace_id", "">> ELSE <<>>)
         \o <<"Search ID:", "data.search_id", "", "Results:">>

\* A handler of the shell called with a command: repl::handle_validate or
\* repl::handle_query from the call of dispatch_command to its return.
ShellHandle(k, tok, v, env) ==
    /\ pc = "call"
    /\ LET d == dispatch_command(CommandOf(k), tok, v, env)
       IN  /\ event' = [type |-> "shell_call", line |-> CommandOf(k), resp |-> env]
           /\ trimmed_input' = CommandOf(k)
           /\ kind' = k
           /\ token' = tok
           /\ verbose' = v
           /\ sent' = d.sent
           /\ headers' = d.headers
           /\ IF d.panics
              THEN /\ pc' = "exit" /\ exit_code' = 101 /\ report' = "panic"
                   /\ outcome' = NoOutcome
                   /\ out' = <<>>
                   /\ diag' = d.diag
              ELSE /\ pc' = "returned" /\ exit_code' = exit_code
                   /\ diag' = d.diag \o shell_stderr(k, d.result, v)
                   /\ IF d.result.cause # "ok"
                      THEN /\ report' = "dispatch_error"
                           /\ outcome' = d.result
                           /\ out' = <<>>
                      ELSE /\ report' = IF decodes(k, d.result.body, FALSE)
                                        THEN "decoded" ELSE "raw"
                           /\ outcome' = render(k, d.result)
                           /\ out' = shell_stdout(k, d.result.body, v)
    /\ UNCHANGED <<input, line_count, consecutive_empty_lines, since, staged,
                   discarded, config_vars, main_vars>>

\* A one-shot handler called by process_command: stdio::handle_validate or
\* stdio::handle_query from the call of dispatch_command to the end of the
\* process.
OneShotHandle(k, tok, v, env) ==
    /\ pc = "call"
    /\ LET d == dispatch_command(CommandOf(k), tok, v, env)
           dec == decodes(k, d.result.body, FALSE)
       IN  /\ event' = [type |-> "oneshot_call", line |-> CommandOf(k), resp |-> env]
           /\ trimmed_input' = CommandOf(k)
           /\ kind' = k
           /\ token' = tok
           /\ verbose' = v
           /\ sent' = d.sent
           /\ headers' = d.headers
           /\ pc' = "exit"
           /\ IF d.panics
              THEN /\ exit_code' = 101 /\ report' = "panic"
                   /\ outcome' = NoOutcome
                   /\ out' = <<>>
                   /\ diag' = d.diag
              ELSE /\ diag' = d.diag \o oneshot_stderr(k, d.result, v)
                   /\ IF d.result.cause # "ok"
                      THEN /\ report' = "dispatch_error"
                           /\ outcome' = d.result
                           /\ out' = <<>>
                           /\ exit_code' = oneshot_exit(k, d.result, FALSE)
                      ELSE /\ report' = oneshot_report(k, d.result, dec)
                           /\ outcome' = oneshot_render(d.result, dec)
                           /\ out' = oneshot_stdout(k, d.result.body, v)
                           /\ exit_code' = oneshot_exit(k, d.result, dec)
    /\ UNCHANGED <<input, line_count, consecutive_empty_lines, since, staged,
                   discarded, config_vars, main_vars>>

\* Credentials given to the handlers: a JWT, bare and with the marker, an
\* API key, and an API key with a control character.
SampleTokens ==
    { <<"a",".","b",".","c">>, BEARER \o <<"a",".","b",".","c">>,
      <<"k","e","y","-","1","2","3">>, <<"k","e","y","\n">> }

InitHandler ==
    /\ pc = "call"
    /\ input = <<>>
    /\ line_count = 0
    /\ consecutive_empty_lines = 0
    /\ trimmed_input = <<>>
    /\ kind = "none"
    /\ sent = <<>>
    /\ report = "none"
    /\ exit_code = -1
    /\ event = [type |-> "start", line |-> <<>>, resp |-> NoResponse]
    /\ since = <<>>
    /\ staged = FALSE
    /\ discarded = <<>>
    /\ outcome = NoOutcome
    /\ NoCall
    /\ NoConfig
    /\ NoMain

NextHandler ==
    \/ \E k \in HandlerKinds, tok \in SampleTokens, v \in BOOLEAN, env \in Envs :
          ShellHandle(k, tok, v, env)
    \/ \E k \in HandlerKinds, tok \in SampleTokens, v \in BOOLEAN, env \in Envs :
          OneShotHandle(k, tok, v, env)

\* One call of a handler, for every credential, verbosity and behaviour of
\* the environment.
HandlerSpec == InitHandler /\ [][NextHandler]_vars

-----------------------------------------------------------------------------
(* The configuration: Config of config.rs (lines 22-76), a map from host to
   token, held as the set of its entries *)

\* Bound on the set_token calls of one run.
MaxCalls == 3

Hosts == {"api.query.ai", "another.host", "nonexistent.com"}

StoredTokens == {"test-token-123", "different-token"}

\* Config::set_token keeping the entries of the host only.
set_token_only(cfg, host, tok) ==
    {e \in cfg : e.host = host} \cup {[host |-> host, token |-> tok]}

\* Config::set_token: HashMap::insert, the token replaces the one the host
\* had and the other entries stay.
set_token(cfg, host, tok) ==
    {e \in cfg : e.host # host} \cup {[host |-> host, token |-> tok]}

\* Config::get_token: HashMap::get.
get_token(cfg, host) ==
    IF \E e \in cfg : e.host = host
    THEN Some((CHOOSE e \in cfg : e.host = host).token)
    ELSE None

\* config.set_token(host, tok)
SetToken(host, tok) ==
    /\ pc = "config"
    /\ Len(calls) < MaxCalls
    /\ api_keys' = set_token(api_keys, host, tok)
    /\ calls' = Append(calls, <<host, tok>>)
    /\ got' = NotAsked
    /\ event' = [type |-> "set_token", line |-> <<host, tok>>, resp |-> NoResponse]
    /\ UNCHANGED <<pc, input, line_count, consecutive_empty_lines, trimmed_input,
                   kind, sent, report, exit_code, since, staged, discarded,
                   outcome, call_vars, main_vars>>

\* config.get_token(host)
GetToken(host) ==
    /\ pc = "config"
    /\ got' = get_token(api_keys, host)
    /\ event' = [type |-> "get_token", line |-> <<host>>, resp |-> NoResponse]
    /\ UNCHANGED <<pc, input, line_count, consecutive_empty_lines, trimmed_input,
                   kind, sent, report, exit_code, since, staged, discarded,
                   outcome, call_vars, api_keys, calls, main_vars>>

\* Config::default()
InitConfig ==
    /\ pc = "config"
    /\ input = <<>>
    /\ line_count = 0
    /\ consecutive_empty_lines = 0
    /\ trimmed_input = <<>>
    /\ kind = "none"
    /\ sent = <<>>
    /\ report = "none"
    /\ exit_code = -1
    /\ event = [type |-> "start", line |-> <<>>, resp |-> NoResponse]
    /\ since = <<>>
    /\ staged = FALSE
    /\ discarded = <<>>
    /\ outcome = NoOutcome
    /\ NoCall
    /\ NoConfig
    /\ NoMain

NextConfig ==
    \/ \E host \in Hosts, tok \in StoredTokens : SetToken(host, tok)
    \/ \E host \in Hosts : GetToken(host)

\* Any sequence of set_token and get_token calls on a default Config.
ConfigSpec == InitConfig /\ [][NextConfig]_vars

-----------------------------------------------------------------------------
(***************************************************************************)
(* main up to the call of a mode: Args::parse, resolve_token and the choice of
   the mode with its URL (main.rs lines 122-206, repl.rs line 320,
   stdio.rs lines 366 and 384) *)

K1 == <<"k","1">>

K2 == <<"k","2">>

\* The command lines and the kinds of stdin main is started with.
ArgSets ==
    [token : {None, Some(K1), Some(K2)},
     host : {"api.query.ai", "another.host"},
     path : {"search/translation/fsql"},
     port : {443, 8443},
     file : {None, Some("q.fsql")},
     command : {None, Some("query x")},
     tty : BOOLEAN]

\* The states of config.toml when main starts: absent, not a Config, or a
\* Config with its entries.
StoredFiles ==
    { NoFile,
      [state |-> "corrupt", keys |-> {}],
      [state |-> "ok", keys |-> {[host |-> "api.query.ai", token |-> K1]}],
      [state |-> "ok", keys |-> {[host |-> "api.query.ai", token |-> K2],
                                 [host |-> "another.host", token |-> K1]}] }

\* clap: file and command conflict with each other.
parse_ok(a) == ~(a.file # None /\ a.command # None)

\* Config::load, with the default configuration in place of an error: the
\* default when the file does not exist, when it cannot be read and when it
\* is not a Config.
load(file, read_ok) ==
    IF file.state = "ok" /\ read_ok THEN file.keys ELSE {}

\* resolve_token preferring the token of the configuration.
resolve_token_stored_first(a, cfg) ==
    IF get_token(cfg, a.host) # None
    THEN [exit |-> FALSE, token |-> get_token(cfg, a.host)[1], config |-> cfg,
          save |-> FALSE]
    ELSE IF a.token # None
    THEN [exit |-> FALSE, token |-> a.token[1],
          config |-> set_token(cfg, a.host, a.token[1]), save |-> TRUE]
    ELSE [exit |-> TRUE, token |-> <<>>, config |-> cfg, save |-> FALSE]

\* resolve_token on the loaded configuration: the token returned, the
\* configuration after set_token, whether it is saved, whether exit(1).
resolve_token(a, cfg) ==
    IF a.token # None
    THEN [exit |-> FALSE, token |-> a.token[1],
          config |-> set_token(cfg, a.host, a.token[1]), save |-> TRUE]
    ELSE IF get_token(cfg, a.host) # None
    THEN [exit |-> FALSE, token |-> get_token(cfg, a.host)[1], config |-> cfg,
          save |-> FALSE]
    ELSE [exit |-> TRUE, token |-> <<>>, config |-> cfg, save |-> FALSE]

\* select_mode looking at stdin before -c and -f.
select_mode_pipe_first(a) ==
    IF ~a.tty THEN "stdin"
    ELSE IF a.command # None THEN "command"
    ELSE IF a.file # None THEN "file"
    ELSE "repl"

\* The if / else-if chain of main (lines 128-152).
select_mode(a) ==
    IF a.command # None THEN (IF ~a.tty THEN "refused" ELSE "command")
    ELSE IF a.file # None THEN (IF ~a.tty THEN "refused" ELSE "file")
    ELSE IF ~a.tty THEN "stdin"
    ELSE "repl"

\* format!("https://{}:{}/{}", host, port, path) in handle_repl,
\* format!("https://{}/{}", host, path) in main, handle_file, handle_stdin;
\* the URL is held as the pieces it is made of.
format_url(m, a) ==
    IF m = "repl"
    THEN <<"https://", a.host, ":", a.port, "/", a.path>>
    ELSE <<"https://", a.host, "/", a.path>>

\* The target a request to the URL goes to: an https URL without a port
\* goes to port 443.
target(url) ==
    IF Len(url) = 6
    THEN [host |-> url[2], port |-> url[4], path |-> url[6]]
    ELSE [host |-> url[2], port |-> 443, path |-> url[4]]

\* Args::parse(): the conflict of -c and -f is a usage error, exit code 2.
Parse ==
    /\ pc = "parse"
    /\ event' = [type |-> "parse", line |-> <<>>, resp |-> NoResponse]
    /\ IF parse_ok(args)
       THEN pc' = "resolve" /\ report' = "none" /\ exit_code' = exit_code
       ELSE pc' = "exit" /\ report' = "usage" /\ exit_code' = 2
    /\ UNCHANGED <<input, line_count, consecutive_empty_lines, trimmed_input,
                   kind, sent, since, staged, discarded, outcome, call_vars,
                   config_vars, main_vars>>

\* resolve_token(&args): the configuration is loaded, a token that was
\* supplied is set for the host and the configuration saved, a failure of
\* which only warns; without one the token of the host is looked up and a
\* miss is exit(1).
ResolveToken ==
    /\ pc = "resolve"
    /\ event' = [type |-> "resolve", line |-> <<>>, resp |-> NoResponse]
    /\ \E read_ok \in BOOLEAN, save_ok \in BOOLEAN :
       LET r == resolve_token(args, load(stored, read_ok))
       IN  /\ api_keys' = r.config
           /\ got' = IF args.token = None THEN get_token(r.config, args.host) ELSE NotAsked
           /\ calls' = IF args.token = None THEN calls
                       ELSE Append(calls, <<args.host, args.token[1]>>)
           /\ IF r.exit
              THEN /\ pc' = "exit" /\ exit_code' = 1 /\ report' = "no_token"
                   /\ UNCHANGED <<token, stored>>
              ELSE /\ pc' = "select" /\ exit_code' = exit_code
                   /\ token' = r.token
                   /\ IF r.save /\ save_ok
                      THEN stored' = [state |-> "ok", keys |-> r.config] /\ report' = "saved"
                      ELSE IF r.save
                      THEN stored' = stored /\ report' = "save_failed"
                      ELSE stored' = stored /\ report' = "stored_token"
    /\ UNCHANGED <<input, line_count, consecutive_empty_lines, trimmed_input,
                   kind, sent, since, staged, discarded, outcome,
                   verbose, headers, out, diag, args, mode, api_url>>

\* The branch of main: one of the four modes is called with its URL, or
\* -c / -f with piped stdin is refused with exit(1).
SelectMode ==
    /\ pc = "select"
    /\ event' = [type |-> "select", line |-> <<>>, resp |-> NoResponse]
    /\ mode' = select_mode(args)
    /\ IF mode' = "refused"
       THEN /\ pc' = "exit" /\ exit_code' = 1 /\ report' = "conflict"
            /\ api_url' = api_url
       ELSE /\ pc' = "running" /\ exit_code' = exit_code /\ report' = "none"
            /\ api_url' = format_url(mode', args)
    /\ UNCHANGED <<input, line_count, consecutive_empty_lines, trimmed_input,
                   kind, sent, since, staged, discarded, outcome, call_vars,
                   config_vars, args, stored>>

InitArgs ==
    /\ pc = "parse"
    /\ input = <<>>
    /\ line_count = 0
    /\ consecutive_empty_lines = 0
    /\ trimmed_input = <<>>
    /\ kind = "none"
    /\ sent = <<>>
    /\ report = "none"
    /\ exit_code = -1
    /\ event = [type |-> "start", line |-> <<>>, resp |-> NoResponse]
    /\ since = <<>>
    /\ staged = FALSE
    /\ discarded = <<>>
    /\ outcome = NoOutcome
    /\ NoCall
    /\ NoConfig
    /\ args \in ArgSets
    /\ stored \in StoredFiles
    /\ mode = "none"
    /\ api_url = <<>>

NextMain ==
    \/ Parse
    \/ ResolveToken
    \/ SelectMode

\* main from its command line to the call of a mode.
MainSpec == InitArgs /\ [][NextMain]_vars

-----------------------------------------------------------------------------
(***************************************************************************)
(* Vocabulary of the properties *)

\* The step delivers a line to a shell that is waiting for one.
LineStep == pc = "readline" /\ event'.type = "line"

\* The line delivered by the step, trimmed.
LineRead == trim(event'.line)

\* The buffer is fresh: nothing accumulated, both counters 0.
Fresh == input = <<>> /\ line_count = 0 /\ consecutive_empty_lines = 0

\* The step appended its line and the shell waits for a further line.
Accumulated ==
    /\ ~staged'
    /\ pc' = "readline"
    /\ line_count' = line_count + 1
    /\ input' = input \o event'.line \o <<"\n">>

\* A line is blank when it is empty or holds white space only.
Blank(line) == \A i \in 1..Len(line) : line[i] \in WS

\* Some white-space character of any kind inside the (trimmed) line.
InteriorWhitespace(t) == \E i \in 1..Len(t) : t[i] \in WS

\* The lines, in arrival order, each followed by a line terminator.
RECURSIVE JoinLines(_)
JoinLines(lines) ==
    IF lines = <<>> THEN <<>>
    ELSE Head(lines) \o <<"\n">> \o JoinLines(Tail(lines))

-----------------------------------------------------------------------------
(* C1 *)

\* C1, as stated: from an empty buffer the line "hello" is not staged by
\* itself; it stays in the buffer and the blank line that follows stages
\* the command "hello".
C1_Stated ==
    [][ /\ (LineStep /\ line_count = 0 /\ event'.line = Hello) => Accumulated
        /\ (LineStep /\ since = <<Hello>> /\ event'.line = <<>>)
              => (staged' /\ trimmed_input' = Hello) ]_vars

\* C1, amended: from an empty buffer the line "hello" stages the command
\* "hello" on that very line (one-word rule), before any blank line is read;
\* the blank line that follows finds a fresh buffer, is staged as an empty
\* command and is skipped.
C1_HelloStagedAtOnce ==
    [][ /\ (LineStep /\ line_count = 0 /\ event'.line = Hello)
              => (staged' /\ trimmed_input' = Hello /\ Fresh')
        /\ (LineStep /\ staged /\ trimmed_input = Hello /\ event'.line = <<>>)
              => (staged' /\ trimmed_input' = <<>> /\ kind' = "none" /\ Fresh') ]_vars

C1_Witness ==
    /\ staged /\ event.type = "line" /\ event.line = Hello
    /\ trimmed_input = Hello /\ Fresh

-----------------------------------------------------------------------------
(* C2 *)

\* C2: a non-blank first line is staged by that line when its trimmed form
\* has no interior white space of any kind, and is not staged by that line
\* when it has interior white space and does not end with ';'.
C2_OneWordRule ==
    [][ (LineStep /\ line_count = 0 /\ ~Blank(event'.line))
           => /\ ~InteriorWhitespace(LineRead) => staged'
              /\ (InteriorWhitespace(LineRead) /\ ~ends_with(LineRead, ";"))
                    => Accumulated ]_vars

-----------------------------------------------------------------------------
(* C3 *)

\* C3: the blank-line threshold is 1: a blank line read while a buffer is
\* being accumulated stages it on that line, the shell never waits for a
\* further line with a blank line counted, and every non-blank line that is
\* appended puts the counter back to 0.
C3_ThresholdOne ==
    [][ /\ (LineStep /\ line_count > 0 /\ Blank(event'.line))
              => (staged' /\ trimmed_input' = trim(input))
        /\ (LineStep /\ ~Blank(event'.line)) => consecutive_empty_lines' = 0
        /\ pc' = "readline" => consecutive_empty_lines' = 0 ]_vars

C3_Witness ==
    /\ staged
    /\ event.type = "line" /\ Blank(event.line)
    /\ contains(trimmed_input, "\n")

-----------------------------------------------------------------------------
(* C4 *)

\* C4: a line whose trimmed form ends with ';' stages the buffer on that
\* line, whether it is the first line or a later one.
C4_SemicolonStages ==
    [][ (LineStep /\ ends_with(LineRead, ";"))
           => (staged' /\ trimmed_input' = trim(input \o event'.line)) ]_vars

C4_Witness ==
    /\ staged
    /\ event.type = "line" /\ ends_with(trim(event.line), ";")
    /\ contains(trimmed_input, "\n")
    /\ contains(trim(event.line), " ")

-----------------------------------------------------------------------------
(* C5 *)

\* The shell waits for a line right after a reset directive cleared the buffer.
AfterReset ==
    /\ pc = "readline"
    /\ event.type = "line" /\ to_lowercase(trim(event.line)) = RESET
    /\ ~staged /\ report = "clear"

\* C5: a line after the first that is the reset directive, after trimming
\* and case-folding, discards the buffer, puts both counters back to 0,
\* stages and sends nothing, and the line read next is handled as a first
\* line: a one-word line is staged at once and what is staged is that line
\* alone.
C5_ResetDiscards ==
    [][ /\ (LineStep /\ line_count > 0 /\ to_lowercase(LineRead) = RESET)
              => /\ Fresh' /\ discarded' = input
                 /\ ~staged' /\ kind' = "none" /\ sent' = <<>>
                 /\ trimmed_input' = <<>>
        /\ (AfterReset /\ event'.type = "line")
              => /\ (~Blank(event'.line) /\ ~contains(LineRead, " ")) => staged'
                 /\ staged' => trimmed_input' = LineRead
                 /\ ~staged' => input' = event'.line \o <<"\n">> ]_vars

C5_Witness ==
    /\ AfterReset /\ Fresh
    /\ event.line # RESET
    /\ contains(discarded, "\n")

-----------------------------------------------------------------------------
(* C6 *)

\* C6, as stated: a blank first line is staged as an empty command that the
\* router classifies Invalid, and the invalid-command message is printed.
C6_Stated ==
    [][ (LineStep /\ line_count = 0 /\ Blank(event'.line))
           => (staged' /\ kind' = "Invalid" /\ report' = "invalid") ]_vars

\* C6, amended: a blank first line breaks the accumulation at once, and the
\* empty command it stages is skipped silently: it does not reach the
\* router, nothing is printed or sent, and the shell waits for the first
\* line of the next command.
C6_EmptySkipped ==
    [][ (LineStep /\ line_count = 0 /\ Blank(event'.line))
           => /\ staged' /\ trimmed_input' = <<>>
              /\ kind' = "none" /\ report' = "none" /\ sent' = <<>>
              /\ pc' = "readline" /\ Fresh' ]_vars

C6_Witness ==
    /\ staged /\ event.type = "line" /\ event.line = <<"\t">>
    /\ trimmed_input = <<>> /\ kind = "none" /\ report = "none"
    /\ pc = "readline" /\ Fresh

-----------------------------------------------------------------------------
(* C7 *)

\* C7: an interrupt discards the buffer whatever it holds, puts both
\* counters back to 0, stages and sends nothing; the buffer afterwards is
\* made of the lines received after the interrupt only, so no discarded
\* line is part of a later staged command.
C7_InterruptDiscards ==
    [][ /\ event'.type = "interrupt"
              => /\ Fresh' /\ discarded' = input /\ pc' = "readline"
                 /\ ~staged' /\ kind' = "none" /\ sent' = <<>>
                 /\ trimmed_input' = <<>> /\ since' = <<>>
        /\ pc' = "readline" => input' = JoinLines(since')
        /\ (LineStep /\ staged') => trimmed_input' = trim(input \o event'.line) ]_vars

C7_Witness ==
    /\ event.type = "interrupt" /\ Fresh /\ pc = "readline"
    /\ contains(discarded, "\n") /\ Len(discarded) > 4

-----------------------------------------------------------------------------
(* C8 *)

\* C8: end-of-input ends the session with the buffer empty or partly
\* filled: the process exits, the partial buffer is neither staged nor
\* sent, and nothing happens after the exit.
C8_EofEndsSession ==
    [][ /\ event'.type = "eof"
              => /\ pc' = "exit" /\ exit_code' = 0
                 /\ ~staged' /\ kind' = "none" /\ sent' = <<>>
                 /\ trimmed_input' = <<>>
        /\ pc = "exit" => UNCHANGED vars ]_vars

C8_Witness ==
    /\ event.type = "eof" /\ pc = "exit" /\ exit_code = 0
    /\ line_count > 0 /\ input # <<>>

-----------------------------------------------------------------------------
(* C9 *)

\* C9: once a command has been staged and its outcome is known (skipped as
\* empty, handled locally, invalid, dispatch error, decoded or raw output),
\* the shell waits for the next command with an empty buffer and both
\* counters at 0.
C9_FreshAfterStaging ==
    (staged /\ pc = "readline") => Fresh

C9_Witness ==
    /\ staged /\ pc = "readline" /\ Fresh
    /\ event.type = "response" /\ report = "dispatch_error"
    /\ contains(trimmed_input, "\n")

-----------------------------------------------------------------------------
(* C10 *)

\* C10: the staged command is the trim of the lines received since the last
\* reset, interrupt or staging, joined in arrival order with a line
\* terminator after each; a command that is sent is sent as that very
\* string, in the letter case the user typed.
C10_StagedText ==
    [][ (LineStep /\ staged')
           => /\ trimmed_input' = trim(JoinLines(Append(since, event'.line)))
              /\ pc' = "dispatch" => sent' = <<trimmed_input'>>
              /\ Len(sent') <= 1 ]_vars

C10_Witness ==
    /\ staged /\ pc = "dispatch"
    /\ sent = <<trimmed_input>>
    /\ trimmed_input # to_lowercase(trimmed_input)
    /\ contains(trimmed_input, "\n")

-----------------------------------------------------------------------------
(* Vocabulary of the routing properties *)

\* A text after trimming and case-folding.
Normal(t) == to_lowercase(trim(t))

\* The text begins with one of the specific explain forms.
SpecificExplain(t) ==
    \/ starts_with(t, EXPLAIN_CONNECTORS)
    \/ starts_with(t, EXPLAIN_VERSION)
    \/ starts_with(t, EXPLAIN_SCHEMA_)
    \/ starts_with(t, EXPLAIN_GRAPHQL_)
    \/ starts_with(t, EXPLAIN_ATTRIBUTES_)

\* The text begins with one of the recognized prefixes.
Recognized(t) ==
    \/ starts_with(t, QUERY_)
    \/ starts_with(t, VALIDATE_)
    \/ starts_with(t, SUMMARIZE_)
    \/ starts_with(t, EXPLAIN_)

\* A router has been applied to the text in input.
Routed == pc \in {"routed_shell", "routed_oneshot"}

-----------------------------------------------------------------------------
(* C11 *)

\* C11: whichever router is applied, a text that begins, in any letter
\* case, with "explain connectors", "explain version", "explain schema ",
\* "explain graphql " or "explain attributes " is never routed to the
\* generic Explain kind.
C11_PrefixPriority ==
    (Routed /\ SpecificExplain(to_lowercase(trimmed_input))) => kind # "Explain"

C11_Witness ==
    /\ pc = "routed_shell" /\ kind = "ExplainVersion"
    /\ trimmed_input # to_lowercase(trimmed_input)
    /\ Len(trimmed_input) > Len(EXPLAIN_VERSION)

-----------------------------------------------------------------------------
(* C12 *)

\* C12: in every entry path the kind selected for a text is the kind
\* selected for the same text trimmed and in lower case, so that letter case
\* and surrounding white space never change the routing.
C12_Insensitive ==
    /\ pc = "routed_shell" => kind = classify_shell(Normal(input))
    /\ pc = "routed_oneshot" => kind = classify_oneshot(Normal(input))

-----------------------------------------------------------------------------
(* C13 *)

\* C13: for a text that begins, after trimming and case-folding, with a
\* recognized prefix, the shell and process_command (given the trimmed text,
\* as handle_file and handle_stdin give it) select the same kind.
C13_SameKind ==
    (Routed /\ Recognized(Normal(input)))
       => /\ pc = "routed_shell" => kind = classify_oneshot(trim(input))
          /\ (pc = "routed_oneshot" /\ event.type # "command")
                => kind = classify_shell(input)

-----------------------------------------------------------------------------
(* C14 *)

\* The step stages a command in the shell.
ShellStages == LineStep /\ staged'

\* The step hands a command text to process_command in a one-shot mode.
OneShotRuns ==
    /\ pc = "main"
    /\ event'.type \in {"command", "file", "stdin"}
    /\ report' # "read_error"

\* The text the step hands to process_command: the -c argument as given,
\* the content of the file or of stdin trimmed.
HandedOver ==
    IF event'.type = "command" THEN event'.line ELSE trim(event'.line)

\* The local directives of the shell.
LocalDirective(t) == t \in {HELP, H, CLEAR, EXIT}

\* The step treats the command as invalid in the shell: the message is
\* printed, nothing is sent and the shell waits for the next command.
InvalidInShell ==
    /\ kind' = "Invalid" /\ report' = "invalid" /\ sent' = <<>>
    /\ pc' = "readline" /\ exit_code' = -1 /\ Fresh'

\* The step treats the command as invalid in a one-shot mode: the message is
\* printed, nothing is sent and the process exits with a non-zero code.
InvalidInOneShot ==
    /\ kind' = "Invalid" /\ report' = "invalid" /\ sent' = <<>>
    /\ pc' = "exit" /\ exit_code' \notin {0, -1}

\* C14 as stated: a command text that matches none of the recognized
\* prefixes is classified Invalid and never sent; the shell then continues
\* with the next command, a one-shot mode exits with a non-zero code.
C14_Stated ==
    [][ /\ (ShellStages /\ ~Recognized(Normal(JoinLines(Append(since, event'.line)))))
            => InvalidInShell
        /\ (OneShotRuns /\ ~Recognized(Normal(event'.line)))
            => InvalidInOneShot ]_vars

\* C14: a command text that matches none of the recognized prefixes is
\* never sent; in a one-shot mode the text handed to process_command is then
\* classified Invalid and the process exits with a non-zero code; in the
\* shell the staged text is classified Invalid and the session continues
\* with the next command, unless it is empty (skipped) or one of the local
\* directives help, h, clear, exit.
C14_InvalidNeverSent ==
    [][ /\ (ShellStages /\ ~Recognized(Normal(JoinLines(Append(since, event'.line)))))
            => /\ sent' = <<>>
               /\ (/\ ~is_empty(trim(JoinLines(Append(since, event'.line))))
                   /\ ~LocalDirective(Normal(JoinLines(Append(since, event'.line)))))
                     => InvalidInShell
        /\ (OneShotRuns /\ ~Recognized(to_lowercase(HandedOver)))
            => InvalidInOneShot ]_vars

C14_Witness ==
    /\ staged /\ kind = "Invalid" /\ report = "invalid" /\ sent = <<>>
    /\ pc = "readline" /\ Fresh
    /\ contains(trimmed_input, " ")

-----------------------------------------------------------------------------
(* C15 *)

\* The step delivers the outcome of request.send() to a waiting handler.
ResponseStep == pc \in {"dispatch", "request"} /\ event'.type = "response"

\* The response is a transport error or carries a non-2xx status.
Failure(resp) ==
    \/ resp.send = "error"
    \/ resp.send = "ok" /\ resp.status \notin 200..299

\* The step ends a dispatch with a failure: a failed response, or a client
\* that could not be built when the command was handed over.
DispatchFails ==
    \/ ResponseStep /\ Failure(event'.resp)
    \/ pc \in {"readline", "main"} /\ outcome'.cause = "build"

\* C15: a dispatch failure is reported; the shell then waits for the next
\* command with a fresh buffer, a one-shot mode ends the process with a
\* non-zero exit code; the error of a non-2xx response carries the status
\* and the body the server sent.
C15_FailureReported ==
    [][ DispatchFails =>
          /\ report' = "dispatch_error"
          /\ outcome'.cause \in {"send", "http", "build"}
          /\ (ResponseStep /\ event'.resp.send = "ok")
                => /\ outcome'.cause = "http"
                   /\ outcome'.status = event'.resp.status
                   /\ event'.resp.readable => outcome'.body = event'.resp.body
          /\ pc \in {"readline", "dispatch"}
                => pc' = "readline" /\ exit_code' = -1 /\ Fresh'
          /\ pc \in {"main", "request"}
                => pc' = "exit" /\ exit_code' \notin {0, -1} ]_vars

C15_Witness ==
    /\ pc = "exit" /\ exit_code = 1 /\ report = "dispatch_error"
    /\ kind = "Query" /\ trimmed_input = QUERY_ \o <<"x">>
    /\ event.type = "response" /\ event.resp.status = 401
    /\ event.resp.body = BODY_ERROR
    /\ outcome.cause = "http" /\ outcome.status = 401 /\ outcome.body = BODY_ERROR

-----------------------------------------------------------------------------
(* C16 *)

\* The response is a 2xx response whose body could be read.
Success(resp) ==
    resp.send = "ok" /\ resp.status \in 200..299 /\ resp.readable

\* The body is a JSON object with every field of the response type of kind k.
MatchesSchema(k, body) == IsJson(body) /\ Schema(k) \subseteq JsonFields(body)

\* C16: a Validate command run outside the shell, whose 2xx body decodes
\* as a ValidateResponse, ends the process with 0 when is_valid is true and
\* with a non-zero code when it is false.
C16_ValidateExit ==
    [][ (/\ pc = "request" /\ kind = "Validate"
         /\ ResponseStep /\ Success(event'.resp)
         /\ MatchesSchema("Validate", event'.resp.body))
          => /\ pc' = "exit"
             /\ event'.resp.body = BODY_VALID
                   => exit_code' = 0 /\ report' = "valid"
             /\ event'.resp.body = BODY_NOT_VALID
                   => exit_code' \notin {0, -1} /\ report' = "not_valid" ]_vars

C16_Witness ==
    /\ pc = "exit" /\ kind = "Validate" /\ exit_code = 1
    /\ report = "not_valid"
    /\ event.type = "response" /\ event.resp.body = BODY_NOT_VALID
    /\ event.resp.status = 200

-----------------------------------------------------------------------------
(* C17 *)

\* C17 as stated: in a one-shot mode a 2xx response is rendered and the
\* process ends with 0, for every kind and whether or not the body decodes,
\* except for a decoded Validate response with is_valid = false.
C17_Stated ==
    [][ (pc = "request" /\ ResponseStep /\ Success(event'.resp))
          => /\ pc' = "exit"
             /\ ~(/\ kind = "Validate"
                  /\ MatchesSchema("Validate", event'.resp.body)
                  /\ ~IsValid(event'.resp.body))
                   => exit_code' = 0 ]_vars

\* C17: in a one-shot mode a command whose dispatch returns Ok is rendered,
\* decoded or raw, and the process ends with 0 for every kind, with two
\* exceptions, both of Validate, which end with a non-zero code: a decoded
\* response with is_valid = false and a body that does not decode.
C17_SuccessExit ==
    [][ (pc = "request" /\ ResponseStep /\ Success(event'.resp))
          => /\ pc' = "exit"
             /\ outcome'.cause = "ok" /\ outcome'.body = event'.resp.body
             /\ report' \in {"decoded", "valid", "not_valid", "raw"}
             /\ report' = "raw" => outcome'.raw = event'.resp.body
             /\ kind # "Validate" => exit_code' = 0
             /\ kind = "Validate"
                   => IF /\ MatchesSchema("Validate", event'.resp.body)
                         /\ IsValid(event'.resp.body)
                      THEN exit_code' = 0
                      ELSE exit_code' \notin {0, -1} ]_vars

C17_Witness ==
    /\ pc = "exit" /\ kind = "Validate" /\ exit_code = 1 /\ report = "raw"
    /\ event.type = "response" /\ event.resp.status = 200
    /\ event.resp.body = BODY_NO_IS_VALID
    /\ outcome.raw = BODY_NO_IS_VALID

-----------------------------------------------------------------------------
(* C18 *)

\* The body fails to decode as the response type of kind k, whatever the
\* definition of the Summarize response type: it is not JSON, or it lacks a
\* field of the type.
DecodeFails(k, body) ==
    \/ ~IsJson(body)
    \/ k # "Summarize" /\ ~(Schema(k) \subseteq JsonFields(body))

\* C18: in the shell and in the one-shot modes, a 2xx body that does not
\* match the schema of the kind the command was routed to is emitted raw and
\* unchanged and nothing panics; a body that matches the schema of that kind
\* is decoded, so that the schema of another kind is never the one tried.
C18_RawFallback ==
    [][ (ResponseStep /\ Success(event'.resp))
          => /\ DecodeFails(kind, event'.resp.body)
                   => /\ report' = "raw"
                      /\ outcome'.raw = event'.resp.body
                      /\ exit_code' # 101
                      /\ pc = "dispatch" => pc' = "readline" /\ exit_code' = -1
             /\ (kind # "Summarize" /\ MatchesSchema(kind, event'.resp.body))
                   => /\ report' \in {"decoded", "valid", "not_valid"}
                      /\ outcome'.raw = NoText ]_vars

C18_Witness ==
    /\ pc = "readline" /\ staged /\ kind = "Query" /\ report = "raw"
    /\ event.type = "response" /\ event.resp.status = 200
    /\ event.resp.body = BODY_VALID
    /\ outcome.raw = BODY_VALID

-----------------------------------------------------------------------------
(* C19 *)

\* The kinds whose handler calls api::dispatch_command.
DispatchKinds == ServerKinds \cup {"Summarize"}

\* The step hands a command to dispatch_command.
HandsOver == pc \in {"readline", "main"} /\ kind' \in DispatchKinds

-----------------------------------------------------------------------------
(* C20 *)

\* C20: for a response received from the server, dispatch_command returns
\* Ok with the body when the status is 2xx, and for every other status an
\* error carrying the status and the body, or the placeholder when the body
\* cannot be read.
C20_StatusDecides ==
    [][ (ResponseStep /\ event'.resp.send = "ok")
          => IF event'.resp.status \in 200..299
             THEN /\ outcome'.cause = "ok"
                  /\ event'.resp.readable => outcome'.body = event'.resp.body
             ELSE /\ outcome'.cause = "http"
                  /\ outcome'.status = event'.resp.status
                  /\ outcome'.body = IF event'.resp.readable
                                     THEN event'.resp.body ELSE PLACEHOLDER ]_vars

-----------------------------------------------------------------------------
(* Vocabulary of the credential properties *)

\* The credential without one leading "Bearer " marker.
Unmarked(tok) ==
    IF Len(tok) >= Len(BEARER) /\ \A i \in 1..Len(BEARER) : tok[i] = BEARER[i]
    THEN [i \in 1..(Len(tok) - Len(BEARER)) |-> tok[i + Len(BEARER)]]
    ELSE tok

\* Exactly three segments between dots, each non-empty and made of
\* alphanumeric characters, '-' or '_': two dots, none at either end, no two
\* adjacent, and nothing else but the permitted characters.
JwtShape(c) ==
    /\ Cardinality({i \in 1..Len(c) : c[i] = "."}) = 2
    /\ c[1] # "." /\ c[Len(c)] # "."
    /\ \A i \in 1..(Len(c) - 1) : ~(c[i] = "." /\ c[i + 1] = ".")
    /\ \A i \in 1..Len(c) :
          c[i] = "." \/ is_alphanumeric(c[i]) \/ c[i] \in {"-", "_"}

\* The values the request headers hold for a name.
Values(name) == {e.value : e \in {x \in headers : x.name = name}}

-----------------------------------------------------------------------------
(* C23 *)

\* C23: every credential is classified, Jwt exactly when, after one
\* optional leading "Bearer " marker is stripped, it has exactly three
\* dot-separated segments, each non-empty and made only of alphanumeric
\* characters, '-' or '_'; ApiKey otherwise.
C23_Classify ==
    pc \in {"classified", "built", "exit"}
       => /\ report \in {"Jwt", "ApiKey"}
          /\ report = "Jwt" <=> JwtShape(Unmarked(token))

C23_Witness ==
    /\ pc = "classified" /\ report = "Jwt"
    /\ starts_with(token, BEARER)
    /\ Len(token) = Len(BEARER) + 5

-----------------------------------------------------------------------------
(* C24 *)

\* C24: the header map of every request holds the user-agent, the
\* protocol-version header and the JSON content type, and exactly one of
\* Authorization and x-token-authorization: Authorization for a Jwt
\* credential, x-token-authorization for an ApiKey credential.
C24_OneAuthHeader ==
    pc = "built"
       => /\ Values(USER_AGENT) = {<<"fsqlctl">>}
          /\ Values(X_QUERYAI_FUQL) = {<<"v2">>}
          /\ Values(CONTENT_TYPE) = {<<"application/json">>}
          /\ Cardinality({e \in headers :
                            e.name \in {AUTHORIZATION, X_TOKEN_AUTHORIZATION}}) = 1
          /\ IF JwtShape(Unmarked(token))
             THEN Values(AUTHORIZATION) # {}
             ELSE Values(X_TOKEN_AUTHORIZATION) # {}

C24_Witness ==
    /\ pc = "built"
    /\ token = <<"A","-",".","b","_",".","9">>
    /\ Values(AUTHORIZATION) # {} /\ Values(X_TOKEN_AUTHORIZATION) = {}
    /\ Cardinality(headers) = 4

-----------------------------------------------------------------------------
(* C25 *)

\* C25 as stated: the Authorization value of a Jwt credential is "Bearer "
\* followed by the credential without its marker; the API-key header of an
\* ApiKey credential holds the credential as supplied.
C25_Stated ==
    pc = "built"
       => IF JwtShape(Unmarked(token))
          THEN Values(AUTHORIZATION) = {BEARER \o Unmarked(token)}
          ELSE Values(X_TOKEN_AUTHORIZATION) = {token}

\* C25: the Authorization value of a Jwt credential is "Bearer " followed
\* by the credential without its marker, so the marker occurs once; the
\* API-key header of an ApiKey credential holds the credential with one
\* leading "Bearer " marker removed and otherwise unchanged.
C25_AuthValue ==
    pc = "built"
       => IF JwtShape(Unmarked(token))
          THEN /\ Values(AUTHORIZATION) = {BEARER \o Unmarked(token)}
               /\ ~contains(Unmarked(token), " ")
          ELSE /\ Values(X_TOKEN_AUTHORIZATION) = {Unmarked(token)}
               /\ ~starts_with(token, BEARER)
                     => Values(X_TOKEN_AUTHORIZATION) = {token}

C25_Witness ==
    /\ pc = "built" /\ report = "ApiKey"
    /\ token = BEARER \o BEARER \o <<"a",".","a",".","a">>
    /\ Values(X_TOKEN_AUTHORIZATION) = {BEARER \o <<"a",".","a",".","a">>}

-----------------------------------------------------------------------------
(* C21 *)

\* A handler has been called and dispatch_command is over.
Called == event.type \in {"shell_call", "oneshot_call"}

\* C21: for every credential and every behaviour of the environment,
\* dispatch_command returns one value, Ok or Err, and the process does not
\* abort.
C21_Total ==
    Called => /\ report # "panic"
              /\ outcome.cause \in {"ok", "send", "http", "build"}

-----------------------------------------------------------------------------
(* C22 *)

\* The step calls a handler.
CallStep == pc = "call" /\ event'.type \in {"shell_call", "oneshot_call"}

\* The same call of dispatch_command with verbose off.
Quiet == dispatch_command(event'.line, token', FALSE, event'.resp)

\* What the handler prints on stdout for the same call with verbose off.
QuietStdout ==
    IF Quiet.panics \/ Quiet.result.cause # "ok" THEN <<>>
    ELSE IF event'.type = "shell_call"
    THEN shell_stdout(kind', Quiet.result.body, FALSE)
    ELSE oneshot_stdout(kind', Quiet.result.body, FALSE)

\* The exit code (-1: the session continues) of the same call with verbose
\* off.
QuietExit ==
    IF Quiet.panics THEN 101
    ELSE IF event'.type = "shell_call" THEN -1
    ELSE oneshot_exit(kind', Quiet.result,
                      decodes(kind', Quiet.result.body, FALSE))

\* C22: whatever the verbose flag, a call sends the same request, returns
\* the same value, prints the same lines on stdout and ends with the same
\* exit code or continuation as the same call with verbose off.
C22_VerboseSideChannel ==
    [][ CallStep
          => /\ sent' = Quiet.sent
             /\ headers' = Quiet.headers
             /\ (report' = "panic") <=> Quiet.panics
             /\ ~Quiet.panics
                   => /\ outcome'.cause = Quiet.result.cause
                      /\ outcome'.status = Quiet.result.status
                      /\ outcome'.body = Quiet.result.body
             /\ exit_code' = QuietExit
             /\ out' = QuietStdout ]_vars

-----------------------------------------------------------------------------
(* C29 *)

\* C29: when the body of a 2xx response decodes as a Query response, the
\* last line the shell prints is the number of results followed by
\* " result found" for exactly one result and by " results found" for
\* every other number, zero included.
C29_ResultCount ==
    [][ (/\ CallStep /\ event'.type = "shell_call" /\ kind' = "Query"
         /\ report' # "panic"
         /\ Success(event'.resp)
         /\ MatchesSchema("Query", event'.resp.body))
          => /\ out' # <<>>
             /\ out'[Len(out')].n = ResultCount(event'.resp.body)
             /\ out'[Len(out')].text =
                   IF ResultCount(event'.resp.body) = 1
                   THEN " result found" ELSE " results found" ]_vars

C29_Witness ==
    /\ event.type = "shell_call" /\ kind = "Query" /\ report = "decoded"
    /\ event.resp.body = BODY_QUERY
    /\ out # <<>>
    /\ out[Len(out)] = [n |-> 0, text |-> " results found"]

-----------------------------------------------------------------------------
(* C26 *)

\* A request of the shell is outstanding.
Outstanding == pc = "dispatch"

\* C26: while a request of the shell is outstanding there is exactly one,
\* and the only thing that happens is its response, rendered before the
\* shell reads again; a line, an interrupt, an end of input or a read error
\* is delivered only while the shell waits in readline with no request
\* outstanding, a request is sent only from there, and an interrupt
\* discards the buffer and nothing else.
C26_Sequential ==
    [][ /\ Outstanding
           => /\ Len(sent) = 1
              /\ event'.type = "response"
              /\ sent' = sent
              /\ pc' \in {"readline", "exit"}
              /\ report' \in {"decoded", "raw", "dispatch_error", "panic"}
        /\ event'.type \in {"line", "interrupt", "eof", "error"}
           => ~Outstanding /\ pc = "readline"
        /\ Outstanding'
           => pc = "readline" /\ event'.type = "line" /\ staged' /\ Len(sent') = 1
        /\ event'.type = "interrupt"
           => /\ discarded' = input /\ sent' = <<>> /\ Fresh'
              /\ pc' = "readline" ]_vars

C26_Witness ==
    /\ Outstanding /\ staged /\ line_count = 2
    /\ event.type = "line"
    /\ Len(sent) = 1 /\ sent[1] = trimmed_input

(***************************************************************************)
(* The collectors of the piped and the file mode                           *)
(***************************************************************************)

\* The step is handle_stdin or handle_file with a payload that was read.
Collects ==
    /\ pc = "main"
    /\ event'.type \in {"file", "stdin"}
    /\ report' # "read_error"

\* C27: in the piped and the file mode the whole payload is read, trimmed
\* once and routed as one command: the text kept for the router is the
\* trimmed payload, at most one text is sent and it is the trimmed payload,
\* a payload whose trimmed text is recognized is sent whole unless the
\* client cannot be built, one that is not recognized is sent not at all,
\* and the step after the request ends the program without another text.
C27_WholePayload ==
    [][ /\ Collects
           => /\ input' = event'.line
              /\ trimmed_input' = trim(event'.line)
              /\ sent' \in {<<>>, <<trim(event'.line)>>}
              /\ pc' \in {"request", "exit"}
              /\ pc' = "request" <=> sent' = <<trim(event'.line)>>
              /\ Recognized(to_lowercase(trim(event'.line)))
                 => \/ sent' = <<trim(event'.line)>>
                    \/ report' = "dispatch_error" /\ outcome'.cause = "build"
              /\ ~Recognized(to_lowercase(trim(event'.line))) => sent' = <<>>
        /\ pc = "request" => pc' = "exit" /\ sent' = sent ]_vars

\* A payload with a line ending in ';' followed by more text went to the
\* server whole.
C27_Witness ==
    /\ pc = "request"
    /\ event.type = "stdin"
    /\ contains(event.line, "\n")
    /\ contains(event.line, ";")
    /\ ~ends_with(trim(event.line), ";")
    /\ sent = <<trim(event.line)>>

(***************************************************************************)
(* One command per one-shot invocation                                     *)
(***************************************************************************)

\* The step is main taking one of its one-shot branches, the refusal of -c
\* or -f with piped stdin included, with a payload that was read.
OneShotInvoked ==
    /\ pc = "main"
    /\ event'.type \in {"command", "file", "stdin", "conflict"}
    /\ report' # "read_error"

\* The command the invocation was given: the -c argument as it is, the
\* content of the file or of stdin trimmed.
Given ==
    IF event'.type \in {"file", "stdin"} THEN trim(event'.line) ELSE event'.line

\* C28 as stated: a one-shot invocation given a recognized command
\* dispatches exactly one command, sends no second request, waits for no
\* further input and terminates with an exit code.
C28_Stated ==
    /\ [][ /\ OneShotInvoked /\ Recognized(to_lowercase(Given))
              => kind' \in DispatchKinds /\ Len(sent') <= 1
           /\ pc = "request" => pc' = "exit" /\ sent' = sent
           /\ pc' # "readline" ]_vars
    /\ <>(pc = "exit" /\ exit_code # -1)

\* C28: a one-shot invocation that main does not refuse (-c or -f with
\* piped stdin exits with 1 and dispatches nothing) and that is given a
\* recognized command hands exactly one command to the dispatcher, which
\* sends one request or, when the client cannot be built, none; the step
\* after the request ends the program without a second request; no step
\* waits for a line; and every invocation terminates with an exit code.
C28_OneCommand ==
    /\ [][ /\ OneShotRuns /\ Recognized(to_lowercase(HandedOver))
              => /\ kind' \in DispatchKinds
                 /\ \/ pc' = "request" /\ sent' = <<HandedOver>> /\ exit_code' = -1
                    \/ /\ pc' = "exit" /\ sent' = <<>> /\ exit_code' # -1
                       /\ outcome'.cause = "build"
           /\ event'.type = "conflict"
              => /\ pc = "main" /\ pc' = "exit" /\ exit_code' = 1
                 /\ kind' = "none" /\ sent' = <<>>
           /\ pc = "request"
              => /\ Len(sent) = 1 /\ sent' = sent /\ kind' = kind
                 /\ pc' = "exit" /\ exit_code' \in {0, 1, 101}
           /\ pc' # "readline" ]_vars
    /\ <>(pc = "exit" /\ exit_code # -1)

\* A one-shot invocation has sent its one request and ended with 0.
C28_Witness ==
    /\ pc = "exit"
    /\ event.type = "response"
    /\ kind \in DispatchKinds
    /\ Len(sent) = 1
    /\ exit_code = 0

(***************************************************************************)
(* The host-to-token configuration                                         *)
(***************************************************************************)

\* What the set_token calls made so far say about a host: nothing when none
\* of them named it, the token of the last one that did otherwise.
LastSet(host) ==
    LET at == {i \in 1..Len(calls) : calls[i][1] = host}
    IN  IF at = {} THEN None ELSE Some(calls[SetMax(at)][2])

\* C30: a default configuration has no tokens; after any sequence of
\* set_token calls get_token of a host returns the token of the last
\* set_token for that host, whatever was set for other hosts since, and
\* nothing for a host never set; calling get_token returns just that.
C30_TokenMap ==
    /\ calls = <<>> => api_keys = {}
    /\ \A host \in Hosts : get_token(api_keys, host) = LastSet(host)
    /\ \A e1, e2 \in api_keys : e1.host = e2.host => e1 = e2
    /\ event.type = "get_token" => got = LastSet(event.line[1])

\* A host set twice with different tokens and another host set in between:
\* get_token of the first host has returned its second token.
C30_Witness ==
    /\ Len(calls) = 3
    /\ calls[1][1] = calls[3][1]
    /\ calls[1][2] # calls[3][2]
    /\ calls[2][1] # calls[1][1]
    /\ event.type = "get_token"
    /\ event.line[1] = calls[1][1]
    /\ got = Some(calls[3][2])

(***************************************************************************)
(* The invariant of the accumulator                                        *)
(***************************************************************************)

\* The shell waits for a further line of a command it has begun.
WaitingForMore == pc = "readline" /\ line_count > 0

\* C34: whenever the shell waits for a further line with a non-empty
\* buffer, the blank-line counter is 0, the buffer holds exactly the lines
\* read since it was fresh, each of them non-blank and none ending with ';'
\* after trimming, and the first of them contains a space; the blank-line
\* counter never exceeds 1 in any reachable state.
C34_Accumulator ==
    /\ consecutive_empty_lines \in {0, 1}
    /\ WaitingForMore
       => /\ consecutive_empty_lines = 0
          /\ Len(since) = line_count
          /\ input = JoinLines(since)
          /\ \A i \in 1..Len(since) :
                /\ ~Blank(since[i])
                /\ ~ends_with(trim(since[i]), ";")
          /\ contains(since[1], " ")
          /\ contains(trim(since[1]), " ")

\* Two lines are buffered, the second one a single word, and the shell
\* waits for a third.
C34_Witness ==
    /\ WaitingForMore
    /\ line_count = 2
    /\ since[1] = <<"a"," ","b">>
    /\ since[2] = <<"a">>
    /\ event.type = "line"

(***************************************************************************)
(* The reset directive as a first line                                     *)
(***************************************************************************)

\* The step reads the reset directive, in any case and with white space
\* around, as the first line of a buffer.
ResetFirst ==
    /\ LineStep
    /\ line_count = 0
    /\ to_lowercase(LineRead) = RESET

ErrorStep == pc = "readline" /\ event'.type = "error"

\* C36: a line-read error other than interrupt and end of input leaves the
\* buffer, the line count and the blank-line counter as they were, stages
\* nothing, sends nothing and keeps the shell waiting; the line read after
\* it is appended to the lines already buffered, which are part of the
\* command it stages.
C36_ErrorKeepsBuffer ==
    [][ /\ ErrorStep
           => /\ input' = input
              /\ line_count' = line_count
              /\ consecutive_empty_lines' = consecutive_empty_lines
              /\ since' = since
              /\ ~staged'
              /\ sent' = <<>>
              /\ report' = "read_error"
              /\ pc' = "readline"
              /\ exit_code' = exit_code
        /\ (LineStep /\ event.type = "error" /\ staged')
           => trimmed_input' = trim(JoinLines(Append(since, event'.line)))
        /\ (LineStep /\ event.type = "error" /\ Accumulated)
           => input' = JoinLines(Append(since, event'.line)) ]_vars

\* The read failed while two lines were buffered, and they are still there.
C36_Witness ==
    /\ event.type = "error"
    /\ report = "read_error"
    /\ pc = "readline"
    /\ line_count = 2
    /\ Len(since) = 2
    /\ input = JoinLines(since)

(***************************************************************************)
(* The local directives and the end of the session                         *)
(***************************************************************************)

\* The branches of the router of the shell that run a local directive.
LocalKinds == {"Help", "Clear", "Exit"}

\* The step ends the session.
SessionEnds == pc \in {"readline", "dispatch"} /\ pc' = "exit"

\* C37: in the shell a staged command runs a local directive exactly when
\* the whole trimmed, case-folded command is help, h, clear or exit; such a
\* command is never sent; the session ends only on exit or on end of input,
\* with exit code 0 after the goodbye; no response of the server, dispatch
\* failure, decode failure or invalid command ends it.
C37_DirectivesAndExit ==
    [][ /\ (ShellStages /\ trimmed_input' # <<>>)
           => /\ kind' \in LocalKinds <=> LocalDirective(to_lowercase(trimmed_input'))
              /\ kind' \in LocalKinds => sent' = <<>> /\ pc' # "dispatch"
        /\ SessionEnds
           => /\ kind' = "Exit" \/ event'.type = "eof"
              /\ exit_code' = 0
              /\ report' = "goodbye"
        /\ (ResponseStep \/ (ShellStages /\ kind' = "Invalid"))
           => pc' = "readline" /\ exit_code' = exit_code ]_vars

(***************************************************************************)
(* Token resolution                                                        *)
(***************************************************************************)

\* The step is resolve_token.
ResolveStep == pc = "resolve" /\ event'.type = "resolve"

\* The configuration resolve_token works on: what Config::load returned, or
\* the default configuration when it failed.
Loaded == {load(stored, read_ok) : read_ok \in BOOLEAN}

\* C31: a token supplied by argument or environment is set for the current
\* host in the configuration and is the token of the session, whether the
\* configuration could be saved or not, and the file holds it when it was
\* saved; when none is supplied the token the loaded configuration has for
\* the host is the token of the session and the file is left alone; when
\* there is neither, the process exits with 1 and no mode has been entered,
\* nothing read and nothing sent.
C31_TokenResolution ==
    [][ ResolveStep
           => /\ args.token # None
                 => /\ get_token(api_keys', args.host) = args.token
                    /\ \E cfg \in Loaded : api_keys' = set_token(cfg, args.host, args.token[1])
                    /\ token' = args.token[1]
                    /\ pc' = "select" /\ exit_code' = -1
                    /\ report' \in {"saved", "save_failed"}
                    /\ report' = "saved" => stored' = [state |-> "ok", keys |-> api_keys']
                    /\ report' = "save_failed" => stored' = stored
              /\ (args.token = None /\ got' # None)
                 => /\ api_keys' \in Loaded
                    /\ got' = get_token(api_keys', args.host)
                    /\ token' = got'[1]
                    /\ pc' = "select" /\ exit_code' = -1
                    /\ stored' = stored
              /\ (args.token = None /\ got' = None)
                 => /\ api_keys' \in Loaded
                    /\ get_token(api_keys', args.host) = None
                    /\ pc' = "exit" /\ exit_code' = 1
                    /\ mode' = "none" /\ api_url' = <<>>
                    /\ input' = <<>> /\ sent' = <<>>
                    /\ stored' = stored ]_vars

\* A token was supplied for a host that has another token in the file, the
\* configuration could not be saved, and the session goes on with the
\* supplied token.
C31_Witness ==
    /\ pc = "select"
    /\ report = "save_failed"
    /\ args.token # None
    /\ token = args.token[1]
    /\ get_token(api_keys, args.host) = args.token
    /\ stored.state = "ok"
    /\ get_token(stored.keys, args.host) \notin {None, args.token}

(***************************************************************************)
(* Mode selection                                                          *)
(***************************************************************************)

\* The step is the if / else-if chain of main.
SelectStep == pc = "select" /\ event'.type = "select"

\* The modes of the program.
Modes == {"command", "file", "stdin", "repl"}

\* The mode the priority order -c, -f, piped stdin, shell gives, "refused"
\* when -c or -f comes with a stdin that is not a terminal.
ByPriority ==
    CASE args.command # None /\ args.tty -> "command"
      [] args.command # None /\ ~args.tty -> "refused"
      [] args.command = None /\ args.file # None /\ args.tty -> "file"
      [] args.command = None /\ args.file # None /\ ~args.tty -> "refused"
      [] args.command = None /\ args.file = None /\ ~args.tty -> "stdin"
      [] OTHER -> "repl"

\* C32 as stated: every invocation runs exactly one mode, the one the
\* priority order gives, unless -c or -f is given while stdin is not a
\* terminal, and then it exits with 1 and dispatches nothing.
C32_Stated ==
    [][ /\ pc' = "exit" => mode' = "refused" /\ exit_code' = 1 /\ sent' = <<>>
        /\ SelectStep => mode' = ByPriority ]_vars

\* C32: an invocation whose arguments parse and whose token is resolved
\* runs exactly one mode, chosen in the order -c, -f, piped stdin, shell;
\* with -c or -f while stdin is not a terminal it exits with 1 and nothing
\* is dispatched; -c and -f together are a usage error with exit code 2 and
\* an invocation without a token exits with 1, both before any mode; the
\* mode is chosen once.
C32_ModeSelection ==
    [][ /\ SelectStep
           => /\ parse_ok(args)
              /\ mode = "none"
              /\ mode' = ByPriority
              /\ mode' \in Modes
                 => pc' = "running" /\ exit_code' = -1 /\ api_url' # <<>>
              /\ mode' = "refused"
                 => /\ pc' = "exit" /\ exit_code' = 1
                    /\ sent' = <<>> /\ api_url' = <<>>
        /\ ~SelectStep => mode' = mode
        /\ (pc = "parse" /\ ~parse_ok(args))
           => pc' = "exit" /\ exit_code' = 2 /\ mode' = "none"
        /\ pc' = "exit"
           => \/ mode' = "refused" /\ exit_code' = 1
              \/ mode' = "none" /\ exit_code' = 2 /\ ~parse_ok(args)
              \/ mode' = "none" /\ exit_code' = 1 /\ args.token = None ]_vars

\* A file was named while stdin is a pipe: refused with exit code 1.
C32_Witness ==
    /\ pc = "exit"
    /\ mode = "refused"
    /\ args.file # None
    /\ ~args.tty
    /\ exit_code = 1
    /\ sent = <<>>

(***************************************************************************)
(* The request target                                                      *)
(***************************************************************************)

\* The target the arguments name.
Configured == [host |-> args.host, port |-> args.port, path |-> args.path]

\* C33: in every mode the URL the mode dispatches to has the configured
\* host, port and path as its target, so that all four modes dispatch to
\* the same target for the same arguments.
C33_SameTarget ==
    [][ (SelectStep /\ mode' \in Modes)
           => /\ target(api_url') = Configured
              /\ \A m \in Modes : target(format_url(m, args)) = target(api_url') ]_vars

====
